---- MODULE Spec2Model ----
(***************************************************************************)
(* Model of the ArchiCore incremental indexer (src/native/indexer):        *)
(* MerkleTree (merkle.cpp), FileIndex and Indexer::diff (indexer.cpp) and   *)
(* FileHasher::hash_files_parallel (hasher.cpp), and of the semantic        *)
(* chunker (src/native/chunker): Tokenizer (tokenizer.cpp) and Chunker      *)
(* (chunker.cpp).                                                           *)
(*                                                                          *)
(* 64-bit unsigned values are tuples of four 16-bit limbs, least            *)
(* significant first, so that the arithmetic of combine_hashes keeps its    *)
(* width.  Strings are sequences of byte codes; a tree is a function from   *)
(* a node's key (the sequence of component names leading to it) to the      *)
(* node's fields.                                                           *)
(***************************************************************************)
EXTENDS Integers, Sequences, FiniteSets, TLC

VARIABLES
    tree,          \* MerkleTree under test: [nodes, dirty]
    other,         \* second MerkleTree (argument of diff)
    ops,           \* number of add/remove calls made so far
    data,          \* bytes produced by MerkleTree::serialize
    restored,      \* fresh MerkleTree after deserialize(data)
    restored_ok,   \* return value of that deserialize ("none" before the call)
    expect_root,   \* tree.root_hash() at the time data was serialized
    corrupt_kind,  \* how the last rejected input of tree.deserialize was damaged
    corrupt_ok     \* return value of tree.deserialize on that input

VARIABLES
    old_files,       \* old_scan.files: sequence of FileEntry
    new_files,       \* new_scan.files
    detect_renames_enabled,  \* config_.detect_renames
    result,          \* the DiffResult returned by Indexer::diff
    diff_pc          \* "call" before Indexer::diff runs, "done" after

VARIABLES
    index,           \* FileIndex X: [entries, merkle]
    file,            \* bytes written by FileIndex::save
    loaded,          \* fresh FileIndex Y after load(file)
    load_ok,         \* return value of that load ("none" before the call)
    saved_all,       \* X.get_all() at the time of the save
    saved_hash       \* X.merkle_hash() at the time of the save

VARIABLES
    paths,           \* paths[i], given as the file the file system holds for it
    num_workers_arg, \* argument num_workers of hash_files_parallel
    hardware_concurrency,  \* std::thread::hardware_concurrency()
    num_workers,     \* num_workers after clamping
    results,         \* std::vector<uint64_t> results
    next_index,      \* std::atomic<size_t> next_index
    wpc,             \* per worker: "fetch", "hash" or "exit"
    widx,            \* per worker: its local idx
    hpc,             \* caller: "call", "wait" or "returned"
    writes,          \* per slot: number of writes made to results[i]
    claimed          \* per slot: the workers whose fetch_add returned i

VARIABLES
    fi_mutex,        \* impl_->mutex: "free", "reader" or "writer"
    fi_entries,      \* impl_->entries: path -> content_hash
    reader_pc,       \* reader thread: "idle", "locked", "holding"
    reader_path,     \* argument of the reader's get(path)
    reader_ptr,      \* the const FileEntry* the reader holds: [path, live] or "null"
    reader_access,   \* how the reader's last use of *ptr went
    writer_pc,       \* writer thread: "idle" or "locked"
    writer_op,       \* the call the writer is inside
    conc_ops         \* number of writer calls made so far

VARIABLES
    load_kind,       \* how the file given to index.load was damaged
    bad_load_ok,     \* return value of index.load on that file
    index_before     \* the index before that call

VARIABLES
    source,          \* the source string given to Chunker::chunk
    config,          \* config_: ChunkerConfig
    boundaries,      \* the boundaries BoundaryDetector::detect returned
    regions,         \* regions / region_types / region_names, one record each
    region_i,        \* index i of the region loop
    chunks,          \* the chunks vector
    chunk_index,     \* uint32_t chunk_index
    split_pos,       \* size_t pos of the split loop
    overlap_bytes,   \* size_t overlap_bytes of the split loop
    cpc              \* position of Chunker::chunk

VARIABLES
    tk_text,         \* the text given to the Tokenizer
    tk_pc,           \* "start" before the call, then the call that was made
    tk_arg,          \* target_tokens of find_token_boundary, or the split offset
    tk_count,        \* value returned by count_tokens(text)
    tk_boundary,     \* value returned by find_token_boundary(text, target)
    tk_parts         \* count_tokens of the two parts of the text at the split

VARIABLES
    root_ret,        \* value returned by the latest tree.root_hash() call
    root_fresh       \* TRUE when no add_file/remove_file/clear followed that call

VARIABLES
    fs_files,        \* the regular files below the scanned root
    fs_root,         \* what root_path names: one of RootKinds
    ix_config,       \* config_ of the Indexer
    previous_index,  \* previous_index.get_all()
    scan_result,     \* the ScanResult of the latest scan
    update_result,   \* the DiffResult incremental_update returned
    ix_pc            \* "call" before the call, then the call that was made

VARIABLES
    xs_data,         \* the bytes to hash
    xs_fed,          \* how many of them update() calls have been given since reset
    xs_stream,       \* the XXHash64Stream object
    xs_calls,        \* since reset: was there an empty update, a piece under 32 bytes
    xs_ops,          \* number of reset() and update() calls made so far
    xs_digest,       \* value returned by the latest finalize()
    xs_pc            \* "idle", "open", or "finalized" right after finalize()

VARIABLES
    dt_source,       \* the source given to BoundaryDetector::detect
    dt_language,     \* the language given to it
    dt_boundaries,   \* the boundaries it returned
    dt_pc            \* "call" before the call, "done" after

concVars == <<fi_mutex, fi_entries, reader_pc, reader_path, reader_ptr,
              reader_access, writer_pc, writer_op, conc_ops>>
loadVars == <<load_kind, bad_load_ok, index_before>>
chunkVars == <<source, config, boundaries, regions, region_i, chunks,
               chunk_index, split_pos, overlap_bytes, cpc>>

tokVars == <<tk_text, tk_pc, tk_arg, tk_count, tk_boundary, tk_parts>>
memoVars == <<root_ret, root_fresh>>
scanVars == <<fs_files, fs_root, ix_config, previous_index, scan_result,
              update_result, ix_pc>>
streamVars == <<xs_data, xs_fed, xs_stream, xs_calls, xs_ops, xs_digest, xs_pc>>
detectVars == <<dt_source, dt_language, dt_boundaries, dt_pc>>
lateVars == <<tokVars, memoVars, scanVars, streamVars, detectVars>>

merkleVars == <<tree, other, ops>>
hasherVars == <<paths, num_workers_arg, hardware_concurrency, num_workers,
                results, next_index, wpc, widx, hpc, writes, claimed>>
indexVars == <<index, file, loaded, load_ok, saved_all, saved_hash>>
diffVars == <<old_files, new_files, detect_renames_enabled, result, diff_pc>>
serialVars == <<data, restored, restored_ok, expect_root, corrupt_kind, corrupt_ok>>

vars == <<merkleVars, serialVars, diffVars, indexVars, hasherVars,
          concVars, loadVars, chunkVars, lateVars>>

outsideTrees == <<diffVars, indexVars, hasherVars, concVars, loadVars, chunkVars, lateVars>>
outsideDiff == <<merkleVars, serialVars, indexVars, hasherVars,
                 concVars, loadVars, chunkVars, lateVars>>
outsideIndex == <<tree, other, serialVars, diffVars, hasherVars,
                  concVars, loadVars, chunkVars, lateVars>>
outsideHasher == <<merkleVars, serialVars, diffVars, indexVars,
                   concVars, loadVars, chunkVars, lateVars>>
outsideLoad == <<tree, other, serialVars, diffVars, hasherVars, concVars, chunkVars, lateVars>>
outsideConc == <<merkleVars, serialVars, diffVars, indexVars, hasherVars,
                 loadVars, chunkVars, lateVars>>
outsideChunk == <<merkleVars, serialVars, diffVars, indexVars, hasherVars,
                  concVars, loadVars, lateVars>>
earlyVars == <<merkleVars, serialVars, diffVars, indexVars, hasherVars,
               concVars, loadVars, chunkVars>>
outsideTok == <<earlyVars, memoVars, scanVars, streamVars, detectVars>>
outsideStream == <<earlyVars, tokVars, memoVars, scanVars, detectVars>>
outsideDetect == <<earlyVars, tokVars, memoVars, scanVars, streamVars>>
outsideMemo == <<other, serialVars, diffVars, indexVars, hasherVars,
                 concVars, loadVars, chunkVars, tokVars, scanVars, streamVars,
                 detectVars>>
outsideScan == <<other, ops, serialVars, diffVars, indexVars, hasherVars,
                 concVars, loadVars, chunkVars, tokVars, memoVars, streamVars,
                 detectVars>>

-----------------------------------------------------------------------------
(* Bounds *)

NumHashes == 2
MaxOps == 3
MaxFiles == 4
MaxIndexOps == 3
MaxPaths == 3
MaxWorkers == 2

-----------------------------------------------------------------------------
(* uint64_t arithmetic on four 16-bit limbs *)

Limb == 65536

U64(n) == <<n, 0, 0, 0>>

Zero64 == U64(0)

\* Val({e(x) : x \in {v}}) is LET x == v IN e(x) with v evaluated once,
\* however often e refers to x
Val(S) == CHOOSE x \in S : TRUE

RECURSIVE XorBits(_, _, _)
XorBits(a, b, n) ==
    IF n = 0 THEN 0
    ELSE (((a % 2) + (b % 2)) % 2) + 2 * XorBits(a \div 2, b \div 2, n - 1)

Xor64(a, b) ==
    Val({[i \in 1..4 |-> XorBits(x[i], y[i], 16)] : <<x, y>> \in {<<a, b>>}})

Carry(a, b, i) ==
    LET c1 == (a[1] + b[1]) \div Limb
        c2 == (a[2] + b[2] + c1) \div Limb
        c3 == (a[3] + b[3] + c2) \div Limb
    IN  CASE i = 1 -> 0 [] i = 2 -> c1 [] i = 3 -> c2 [] OTHER -> c3

Add64(a, b) ==
    Val({[i \in 1..4 |-> (x[i] + y[i] + Carry(x, y, i)) % Limb] :
         <<x, y>> \in {<<a, b>>}})

Shl6(a) == [i \in 1..4 |->
    ((a[i] * 64) % Limb) + (IF i = 1 THEN 0 ELSE a[i - 1] \div 1024)]

Shr2(a) == [i \in 1..4 |->
    (a[i] \div 4) + (IF i = 4 THEN 0 ELSE (a[i + 1] % 4) * 16384)]

\* 0x9E3779B185EBCA87
PRIME == <<51847, 34283, 31153, 40503>>

combine_hashes(h1, h2) ==
    Xor64(h1, Add64(Add64(Add64(h2, PRIME), Shl6(h1)), Shr2(h1)))

-----------------------------------------------------------------------------
(* XXHash64 and XXHash64Stream *)

\* 64-bit values as limbs: a - b
Sub64(a, b) ==
    Val({Add64(Add64(a, [i \in 1..4 |-> Limb - 1 - y[i]]), U64(1)) : y \in {b}})

Pow2(n) == 2 ^ n

\* limb i (from 0) of a, 0 outside the value
LimbAt(a, i) == IF i \in 0..3 THEN a[i + 1] ELSE 0

\* x >> r
Shr64(x, r) ==
    LET q == r \div 16
        s == r % 16
    IN  Val({[k \in 1..4 |->
                 (LimbAt(a, k - 1 + q) \div Pow2(s))
                 + (LimbAt(a, k + q) % Pow2(s)) * Pow2(16 - s)] : a \in {x}})

\* (x << r) | (x >> (64 - r))
rotl64(x, r) ==
    LET q == r \div 16
        s == r % 16
    IN  Val({[k \in 1..4 |->
                 (a[((k - 1 - q) % 4) + 1] % Pow2(16 - s)) * Pow2(s)
                 + (a[((k - 2 - q) % 4) + 1] \div Pow2(16 - s))] : a \in {x}})

\* the eight bytes of a 64-bit value, lowest first
Bytes8(a) ==
    Val({[i \in 1..8 |-> IF i % 2 = 1 THEN x[(i + 1) \div 2] % 256
                                      ELSE x[i \div 2] \div 256] : x \in {a}})

RECURSIVE ColumnSum(_, _, _, _)
ColumnSum(a, b, k, i) ==
    IF i > k THEN 0
    ELSE a[i + 1] * b[k - i + 1] + ColumnSum(a, b, k, i + 1)

\* the low eight bytes of the product of the byte strings a and b
RECURSIVE MulFrom(_, _, _, _, _)
MulFrom(a, b, k, carry, acc) ==
    IF k = 8 THEN acc
    ELSE Val({MulFrom(a, b, k + 1, s \div 256, Append(acc, s % 256)) :
              s \in {carry + ColumnSum(a, b, k, 0)}})

\* a * b modulo 2^64
Mul64(a, b) ==
    Val({[i \in 1..4 |-> p[2 * i - 1] + 256 * p[2 * i]] :
         p \in {Val({MulFrom(x, y, 0, 0, <<>>) :
                     <<x, y>> \in {<<Bytes8(a), Bytes8(b)>>}})}})

\* 0x9E3779B185EBCA87, 0xC2B2AE3D27D4EB4F, 0x165667B19E3779F9,
\* 0x85EBCA77C2B2AE63, 0x27D4EB2F165667C5
PRIME64_1 == <<51847, 34283, 31153, 40503>>
PRIME64_2 == <<60239, 10196, 44605, 49842>>
PRIME64_3 == <<31225, 40503, 26545, 5718>>
PRIME64_4 == <<44643, 49842, 51831, 34283>>
PRIME64_5 == <<26565, 5718, 60207, 10196>>

\* memcpy of 8 (4) bytes at offset p of a byte string into an integer
read64(bytes, p) ==
    [i \in 1..4 |-> bytes[p + 2 * i - 1] + 256 * bytes[p + 2 * i]]

read32(bytes, p) ==
    <<bytes[p + 1] + 256 * bytes[p + 2], bytes[p + 3] + 256 * bytes[p + 4], 0, 0>>

round(acc, input) ==
    Val({Mul64(rotl64(a, 31), PRIME64_1) :
         a \in {Add64(acc, Mul64(input, PRIME64_2))}})

merge_round(acc, val) ==
    Val({Add64(Mul64(x, PRIME64_1), PRIME64_4) :
         x \in {Xor64(acc, round(Zero64, val))}})

\* one turn of the stripe loop: the four lanes of the 32 bytes at offset p
Stripe(v, bytes, p) ==
    <<round(v[1], read64(bytes, p)), round(v[2], read64(bytes, p + 8)),
      round(v[3], read64(bytes, p + 16)), round(v[4], read64(bytes, p + 24))>>

\* do { ... } while (p <= limit): the lanes and p afterwards
RECURSIVE Stripes(_, _, _, _)
Stripes(v, bytes, p, limit) ==
    Val({IF p + 32 <= limit THEN Stripes(w, bytes, p + 32, limit)
         ELSE [v |-> w, p |-> p + 32] :
         w \in {Stripe(v, bytes, p)}})

InitialLanes(seed) ==
    <<Add64(Add64(seed, PRIME64_1), PRIME64_2), Add64(seed, PRIME64_2),
      seed, Sub64(seed, PRIME64_1)>>

\* h64 after the four lanes are merged
MergeLanes(v) ==
    Val({merge_round(merge_round(merge_round(merge_round(h, v[1]), v[2]), v[3]), v[4]) :
         h \in {Add64(Add64(Add64(rotl64(v[1], 1), rotl64(v[2], 7)),
                            rotl64(v[3], 12)), rotl64(v[4], 18))}})

\* the three loops over the bytes left after the stripes
RECURSIVE TailBytes(_, _, _, _)
TailBytes(h64, bytes, p, end) ==
    IF p + 8 <= end
    THEN Val({TailBytes(h, bytes, p + 8, end) :
              h \in {Add64(Mul64(rotl64(Xor64(h64, round(Zero64, read64(bytes, p))), 27),
                                 PRIME64_1), PRIME64_4)}})
    ELSE IF p + 4 <= end
    THEN Val({TailBytes(h, bytes, p + 4, end) :
              h \in {Add64(Mul64(rotl64(Xor64(h64, Mul64(read32(bytes, p), PRIME64_1)), 23),
                                 PRIME64_2), PRIME64_3)}})
    ELSE IF p < end
    THEN Val({TailBytes(h, bytes, p + 1, end) :
              h \in {Mul64(rotl64(Xor64(h64, Mul64(U64(bytes[p + 1]), PRIME64_5)), 11),
                           PRIME64_1)}})
    ELSE h64

\* the final mixing of h64
Avalanche(h64) ==
    LET a == Val({Mul64(Xor64(h, Shr64(h, 33)), PRIME64_2) : h \in {h64}})
        b == Val({Mul64(Xor64(h, Shr64(h, 29)), PRIME64_3) : h \in {a}})
    IN  Val({Xor64(h, Shr64(h, 32)) : h \in {b}})

\* XXHash64::hash(data, len, seed)
XXHash64_hash(bytes, seed) ==
    LET len == Len(bytes)
        s == IF len >= 32
             THEN Stripes(InitialLanes(seed), bytes, 0, len - 32)
             ELSE [v |-> InitialLanes(seed), p |-> 0]
    IN  Val({Avalanche(TailBytes(Add64(h, U64(len)), bytes, t.p, len)) :
             <<t, h>> \in {<<x, IF len >= 32 THEN MergeLanes(x.v)
                                  ELSE Add64(seed, PRIME64_5)>> : x \in {s}}})

\* memcpy(mem + at, bytes + p, n)
CopyIn(mem, at, bytes, p, n) ==
    [i \in 1..32 |-> IF i > at /\ i <= at + n THEN bytes[p + i - at] ELSE mem[i]]

\* XXHash64Stream::reset
XXHash64Stream_reset(st) ==
    [st EXCEPT !.total_len = 0, !.v = InitialLanes(st.seed), !.mem_size = 0]

\* XXHash64Stream::XXHash64Stream(seed), mem being what the array holds
XXHash64Stream(seed, mem) ==
    XXHash64Stream_reset([seed |-> seed, total_len |-> 0, v |-> InitialLanes(seed),
                          mem |-> mem, mem_size |-> 0])

\* the "Process 32-byte blocks" and "Store remainder" parts of update
UpdateBlocks(st, bytes, p0) ==
    LET end == Len(bytes)
        s == IF p0 + 32 <= end THEN Stripes(st.v, bytes, p0, end - 32)
             ELSE [v |-> st.v, p |-> p0]
    IN  Val({IF x.p < end
             THEN [st EXCEPT !.v = x.v, !.mem_size = end - x.p,
                             !.mem = CopyIn(st.mem, 0, bytes, x.p, end - x.p)]
             ELSE [st EXCEPT !.v = x.v] : x \in {s}})

\* update that forgets the remainder of the data
XXHash64Stream_update_NoRemainder(st0, bytes) ==
    LET len == Len(bytes)
        st == [st0 EXCEPT !.total_len = @ + len]
        s == IF len >= 32 THEN Stripes(st.v, bytes, 0, len - 32)
             ELSE [v |-> st.v, p |-> 0]
    IN  [st EXCEPT !.v = s.v]

\* XXHash64Stream::update(data, len)
XXHash64Stream_update(st0, bytes) ==
    LET len == Len(bytes)
        st == [st0 EXCEPT !.total_len = @ + len]
        to_fill == 32 - st.mem_size
    IN  IF st.mem_size > 0
        THEN IF len < to_fill
             THEN [st EXCEPT !.mem = CopyIn(st.mem, st.mem_size, bytes, 0, len),
                             !.mem_size = @ + len]
             ELSE Val({UpdateBlocks(flushed, bytes, to_fill) :
                       flushed \in {[st EXCEPT !.mem = filled,
                                               !.v = Stripe(st.v, filled, 0),
                                               !.mem_size = 0] :
                           filled \in {CopyIn(st.mem, st.mem_size, bytes, 0, to_fill)}}})
        ELSE UpdateBlocks(st, bytes, 0)

\* XXHash64Stream::finalize
XXHash64Stream_finalize(st) ==
    Val({Avalanche(TailBytes(Add64(h, U64(st.total_len)), st.mem, 0, st.mem_size)) :
         h \in {IF st.total_len >= 32 THEN MergeLanes(st.v)
                ELSE Add64(st.seed, PRIME64_5)}})

-----------------------------------------------------------------------------
(* Strings and paths *)

Slash == 47
Backslash == 92

RECURSIVE StrLess(_, _)
StrLess(s, t) ==
    IF t = <<>> THEN FALSE
    ELSE IF s = <<>> THEN TRUE
    ELSE IF Head(s) # Head(t) THEN Head(s) < Head(t)
    ELSE StrLess(Tail(s), Tail(t))

RECURSIVE Concat(_)
Concat(seqs) == IF seqs = <<>> THEN <<>> ELSE Head(seqs) \o Concat(Tail(seqs))

IsPrefix(k, l) == Len(k) <= Len(l) /\ SubSeq(l, 1, Len(k)) = k

Last(s) == s[Len(s)]

RECURSIVE SplitFrom(_, _, _, _)
SplitFrom(path, i, component, components) ==
    IF i > Len(path)
    THEN IF component # <<>> THEN Append(components, component) ELSE components
    ELSE IF path[i] = Slash \/ path[i] = Backslash
         THEN IF component # <<>>
              THEN SplitFrom(path, i + 1, <<>>, Append(components, component))
              ELSE SplitFrom(path, i + 1, <<>>, components)
         ELSE SplitFrom(path, i + 1, Append(component, path[i]), components)

split_path(path) == SplitFrom(path, 1, <<>>, <<>>)

-----------------------------------------------------------------------------
(* MerkleNode / MerkleTree::Impl *)

MerkleNode(n, h, isfile) == [name |-> n, hash |-> h, is_file |-> isfile]

EmptyTree == [nodes |-> (<<>> :> MerkleNode(<<>>, Zero64, FALSE)), dirty |-> FALSE]

Children(nodes, k) ==
    {c \in DOMAIN nodes : Len(c) = Len(k) + 1 /\ IsPrefix(k, c)}

MinKey(S) == CHOOSE c \in S : \A d \in S : d = c \/ StrLess(Last(c), Last(d))

RECURSIVE SortKeys(_)
SortKeys(S) ==
    IF S = {} THEN <<>>
    ELSE LET m == MinKey(S) IN <<m>> \o SortKeys(S \ {m})

\* the nodes function after get_or_create_node(path, is_file): every missing
\* prefix of the component list is created with hash 0
get_or_create_node(nodes, path, is_file) ==
    LET components == split_path(path)
        prefixes == {SubSeq(components, 1, i) : i \in 0..Len(components)}
    IN  [k \in (DOMAIN nodes) \cup prefixes |->
            IF k \in DOMAIN nodes THEN nodes[k]
            ELSE MerkleNode(Last(k), Zero64, (k = components) /\ is_file)]

RECURSIVE compute_node_hash(_, _)
RECURSIVE FoldChildren(_, _, _)
FoldChildren(nodes, kids, combined) ==
    IF kids = <<>> THEN combined
    ELSE FoldChildren(nodes, Tail(kids),
                      combine_hashes(combined, compute_node_hash(nodes, Head(kids))))

compute_node_hash(nodes, k) ==
    IF nodes[k].is_file THEN nodes[k].hash
    ELSE FoldChildren(nodes, SortKeys(Children(nodes, k)), Zero64)

\* the nodes the recursion started at k reaches: it stops below a file node
Visited(nodes, k) ==
    {c \in DOMAIN nodes :
        /\ IsPrefix(k, c)
        /\ \A i \in Len(k)..(Len(c) - 1) : ~nodes[SubSeq(c, 1, i)].is_file}

\* the side effect of compute_node_hash: every visited directory stores its hash
StoreHashes(nodes, k) ==
    [c \in DOMAIN nodes |->
        IF c \in Visited(nodes, k) /\ ~nodes[c].is_file
        THEN [nodes[c] EXCEPT !.hash = compute_node_hash(nodes, c)]
        ELSE nodes[c]]

find_node(nodes, path) == split_path(path) \in DOMAIN nodes

remove_node(nodes, path) ==
    LET components == split_path(path) IN
    IF components = <<>> \/ components \notin DOMAIN nodes THEN nodes
    ELSE [k \in {c \in DOMAIN nodes : ~IsPrefix(components, c)} |-> nodes[k]]

\* add_file that leaves the dirty flag as it is
add_file_KeepsFlag(t, path, content_hash) ==
    LET created == get_or_create_node(t.nodes, path, TRUE)
        node == split_path(path)
    IN  [nodes |-> [created EXCEPT ![node].hash = content_hash,
                                   ![node].is_file = TRUE],
         dirty |-> t.dirty]

\* MerkleTree::add_file
add_file(t, path, content_hash) ==
    LET created == get_or_create_node(t.nodes, path, TRUE)
        node == split_path(path)
    IN  [nodes |-> [created EXCEPT ![node].hash = content_hash,
                                   ![node].is_file = TRUE],
         dirty |-> TRUE]

\* MerkleTree::clear
clear(t) == EmptyTree

\* the tree after MerkleTree::compute_hash(dir_path): the directories below
\* the node store their hashes, the dirty flag stays
compute_hash_state(t, dir_path) ==
    IF find_node(t.nodes, dir_path)
    THEN [t EXCEPT !.nodes = StoreHashes(t.nodes, split_path(dir_path))]
    ELSE t

\* the value MerkleTree::compute_hash returns
compute_hash(t, dir_path) ==
    IF find_node(t.nodes, dir_path)
    THEN compute_node_hash(t.nodes, split_path(dir_path))
    ELSE Zero64

\* MerkleTree::remove_file
remove_file(t, path) == [nodes |-> remove_node(t.nodes, path), dirty |-> TRUE]

\* the tree after MerkleTree::root_hash (memoized recomputation)
root_hash_state(t) ==
    IF t.dirty THEN [nodes |-> StoreHashes(t.nodes, <<>>), dirty |-> FALSE]
    ELSE t

\* the value MerkleTree::root_hash returns
root_hash(t) == root_hash_state(t).nodes[<<>>].hash

NodeDiffers_OneSided(nodes1, nodes2, k) ==
    k \notin DOMAIN nodes2 \/
    (k \in DOMAIN nodes1 /\ nodes1[k].hash # nodes2[k].hash)

\* the test `!node1 || !node2 || node1->hash != node2->hash`
NodeDiffers(nodes1, nodes2, k) ==
    k \notin DOMAIN nodes1 \/ k \notin DOMAIN nodes2 \/
    nodes1[k].hash # nodes2[k].hash

RECURSIVE collect_diff(_, _, _, _)
RECURSIVE DiffChildren(_, _, _, _)
DiffChildren(nodes1, nodes2, kids, current_path) ==
    IF kids = <<>> THEN <<>>
    ELSE LET name == Last(Head(kids))
             child_path == IF current_path = <<>> THEN name
                           ELSE current_path \o <<Slash>> \o name
         IN  collect_diff(nodes1, nodes2, Head(kids), child_path)
             \o DiffChildren(nodes1, nodes2, Tail(kids), current_path)

collect_diff(nodes1, nodes2, k, current_path) ==
    IF k \notin DOMAIN nodes1 /\ k \notin DOMAIN nodes2 THEN <<>>
    ELSE (IF NodeDiffers(nodes1, nodes2, k) /\ current_path # <<>>
          THEN <<current_path>> ELSE <<>>)
         \o DiffChildren(nodes1, nodes2,
                         SortKeys(Children(nodes1, k) \cup Children(nodes2, k)),
                         current_path)

\* MerkleTree::diff
diff(t, o) == collect_diff(t.nodes, o.nodes, <<>>, <<>>)

-----------------------------------------------------------------------------
(* Byte encodings (little-endian, as memcpy of the in-memory value writes) *)

U32Bytes(n) ==
    <<n % 256, (n \div 256) % 256, (n \div 65536) % 256, n \div 16777216>>

U32At(bytes, pos) ==
    bytes[pos] + 256 * bytes[pos + 1] + 65536 * bytes[pos + 2]
        + 16777216 * bytes[pos + 3]

U64Bytes(h) ==
    <<h[1] % 256, h[1] \div 256, h[2] % 256, h[2] \div 256,
      h[3] % 256, h[3] \div 256, h[4] % 256, h[4] \div 256>>

U64At(bytes, pos) ==
    [i \in 1..4 |-> bytes[pos + 2 * (i - 1)] + 256 * bytes[pos + 2 * (i - 1) + 1]]

\* "MRKL"
MerkleMagic == 1297238860
MerkleVersion == 1

RECURSIVE serialize_node(_, _)
RECURSIVE SerializeChildren(_, _)
SerializeChildren(nodes, kids) ==
    IF kids = <<>> THEN <<>>
    ELSE serialize_node(nodes, Head(kids)) \o SerializeChildren(nodes, Tail(kids))

serialize_node(nodes, k) ==
    U32Bytes(Len(nodes[k].name)) \o nodes[k].name
    \o U64Bytes(nodes[k].hash)
    \o <<IF nodes[k].is_file THEN 1 ELSE 0>>
    \o U32Bytes(Cardinality(Children(nodes, k)))
    \o SerializeChildren(nodes, SortKeys(Children(nodes, k)))

\* MerkleTree::serialize
serialize(t) ==
    U32Bytes(MerkleMagic) \o U32Bytes(MerkleVersion) \o serialize_node(t.nodes, <<>>)

DeserFail == [ok |-> FALSE, nodes |-> <<>>, pos |-> 0]

\* deserialize_node reading at position pos (1-based) the node whose key in
\* the rebuilt tree is k; nodes holds the subtree read, pos the new cursor
RECURSIVE deserialize_node(_, _, _)
RECURSIVE DeserializeChildren(_, _, _, _, _)
DeserializeChildren(bytes, pos, k, remaining, acc) ==
    IF remaining = 0 THEN [ok |-> TRUE, nodes |-> acc, pos |-> pos]
    ELSE LET name_len == U32At(bytes, pos)
             \* the child's name is known before it is read: its key is k + name
             peek_ok == pos + 3 <= Len(bytes) /\ pos + 3 + name_len <= Len(bytes)
             ck == IF peek_ok
                   THEN Append(k, SubSeq(bytes, pos + 4, pos + 3 + name_len))
                   ELSE k
             child == deserialize_node(bytes, pos, ck)
         IN  IF ~peek_ok \/ ~child.ok THEN DeserFail
             ELSE DeserializeChildren(bytes, child.pos, k, remaining - 1,
                    \* node->children[child->name] = std::move(child)
                    [c \in {d \in DOMAIN acc : ~IsPrefix(ck, d)}
                           \cup DOMAIN child.nodes |->
                        IF c \in DOMAIN child.nodes THEN child.nodes[c] ELSE acc[c]])

deserialize_node(bytes, pos, k) ==
    IF pos + 3 > Len(bytes) THEN DeserFail
    ELSE LET name_len == U32At(bytes, pos)
             p1 == pos + 4
         IN  IF p1 + name_len - 1 > Len(bytes) THEN DeserFail
             ELSE LET name == SubSeq(bytes, p1, p1 + name_len - 1)
                      p2 == p1 + name_len
                  IN  IF p2 + 7 > Len(bytes) THEN DeserFail
                      ELSE LET hash == U64At(bytes, p2)
                               p3 == p2 + 8
                           IN  IF p3 > Len(bytes) THEN DeserFail
                               ELSE LET is_file == bytes[p3] # 0
                                        p4 == p3 + 1
                                    IN  IF p4 + 3 > Len(bytes) THEN DeserFail
                                        ELSE DeserializeChildren(bytes, p4 + 4, k,
                                               U32At(bytes, p4),
                                               k :> MerkleNode(name, hash, is_file))

deserialize_NoVersionCheck(t, bytes) ==
    IF Len(bytes) < 8 THEN [ok |-> FALSE, tree |-> t]
    ELSE IF U32At(bytes, 1) # MerkleMagic THEN [ok |-> FALSE, tree |-> t]
    ELSE LET root == deserialize_node(bytes, 9, <<>>)
         IN  IF ~root.ok THEN [ok |-> FALSE, tree |-> t]
             ELSE [ok |-> TRUE, tree |-> [nodes |-> root.nodes, dirty |-> FALSE]]

\* MerkleTree::deserialize applied to tree t: the return value and the tree after
deserialize(t, bytes) ==
    IF Len(bytes) < 8 THEN [ok |-> FALSE, tree |-> t]
    ELSE IF U32At(bytes, 1) # MerkleMagic THEN [ok |-> FALSE, tree |-> t]
    ELSE IF U32At(bytes, 5) # MerkleVersion THEN [ok |-> FALSE, tree |-> t]
    ELSE LET root == deserialize_node(bytes, 9, <<>>)
         IN  IF ~root.ok THEN [ok |-> FALSE, tree |-> t]
             ELSE [ok |-> TRUE, tree |-> [nodes |-> root.nodes, dirty |-> FALSE]]

-----------------------------------------------------------------------------
(* Inputs *)

\* "a", "d", "d/f", "d\f"
PathA == <<97>>
PathD == <<100>>
PathDF == <<100, 47, 102>>
PathDbF == <<100, 92, 102>>

Paths == {PathA, PathD, PathDF, PathDbF}

Hashes == {U64(i) : i \in 1..NumHashes}

-----------------------------------------------------------------------------
(* FileIndex *)

FileEntry(p, h, ix) ==
    [path |-> p, content_hash |-> h, size |-> U64(3), mtime |-> U64(5),
     language |-> 3, is_indexed |-> ix]

EmptyIndex == [entries |-> <<>>, merkle |-> EmptyTree]

\* FileIndex::add
index_add(x, entry) ==
    [entries |-> [q \in (DOMAIN x.entries) \cup {entry.path} |->
                    IF q = entry.path THEN entry ELSE x.entries[q]],
     merkle |-> add_file(x.merkle, entry.path, entry.content_hash)]

\* FileIndex::remove
index_remove(x, path) ==
    [entries |-> [q \in (DOMAIN x.entries) \ {path} |-> x.entries[q]],
     merkle |-> remove_file(x.merkle, path)]

\* FileIndex::clear (MerkleTree::clear installs a new root, not dirty)
index_clear(x) == EmptyIndex

\* FileIndex::get_all, as a set
get_all(x) == {x.entries[q] : q \in DOMAIN x.entries}

\* FileIndex::merkle_hash: the value returned and the index afterwards
merkle_hash(x) == root_hash(x.merkle)

merkle_hash_state(x) == [x EXCEPT !.merkle = root_hash_state(x.merkle)]

\* "FIDN"
IndexMagic == 1179206734
IndexVersion == 1

EntryBytes(e) ==
    U32Bytes(Len(e.path)) \o e.path \o U64Bytes(e.content_hash)
    \o U64Bytes(e.size) \o U64Bytes(e.mtime)
    \o <<e.language>> \o <<IF e.is_indexed THEN 1 ELSE 0>>

\* FileIndex::save writing the entries in the order `order` (the iteration
\* order of the unordered_map, a sequence of the map's keys)
save(x, order) ==
    LET merkle_data == serialize(x.merkle)
    IN  U32Bytes(IndexMagic) \o U32Bytes(IndexVersion)
        \o U32Bytes(Len(order))
        \o Concat([i \in 1..Len(order) |-> EntryBytes(x.entries[order[i]])])
        \o U32Bytes(Len(merkle_data)) \o merkle_data

Orders(S) ==
    {o \in [1..Cardinality(S) -> S] : \A i, j \in DOMAIN o : o[i] = o[j] => i = j}

\* the entry loop of FileIndex::load on a complete file: the entries map and
\* the position after the last entry
RECURSIVE ReadEntries(_, _, _, _)
ReadEntries(bytes, pos, remaining, entries) ==
    IF remaining = 0 THEN [entries |-> entries, pos |-> pos]
    ELSE LET path_len == U32At(bytes, pos)
             path == SubSeq(bytes, pos + 4, pos + 3 + path_len)
             p1 == pos + 4 + path_len
             entry == [path |-> path,
                       content_hash |-> U64At(bytes, p1),
                       size |-> U64At(bytes, p1 + 8),
                       mtime |-> U64At(bytes, p1 + 16),
                       language |-> bytes[p1 + 24],
                       is_indexed |-> bytes[p1 + 25] # 0]
         IN  ReadEntries(bytes, p1 + 26, remaining - 1,
                [q \in (DOMAIN entries) \cup {path} |->
                    IF q = path THEN entry ELSE entries[q]])

\* FileIndex::load of a complete file into index x: return value and index after
load(x, bytes) ==
    IF U32At(bytes, 1) # IndexMagic \/ U32At(bytes, 5) # IndexVersion
    THEN [ok |-> FALSE, index |-> x]
    ELSE LET read == ReadEntries(bytes, 13, U32At(bytes, 9), <<>>)
             merkle_size == U32At(bytes, read.pos)
             merkle_data == SubSeq(bytes, read.pos + 4,
                                   read.pos + 3 + merkle_size)
         IN  [ok |-> TRUE,
              index |-> [entries |-> read.entries,
                         merkle |-> deserialize(x.merkle, merkle_data).tree]]

\* values an object can hold that was declared without an initializer and
\* whose file.read failed (count, path_len, the scalar fields of entry,
\* merkle_size)
Indeterminate == 0..1

Zeros(n) == [i \in 1..n |-> 0]

\* the entry loop of FileIndex::load on a file that may end at pos: once a
\* read has failed every later read fails too and leaves its target as it was
RECURSIVE ReadEntriesStream(_, _, _, _, _)
ReadEntriesStream(bytes, at, remaining, acc, junk) ==
    IF remaining = 0 THEN [entries |-> acc, pos |-> at]
    ELSE IF at + 3 <= Len(bytes)
    THEN LET one == ReadEntries(bytes, at, 1, acc)
         IN  ReadEntriesStream(bytes, one.pos, remaining - 1, one.entries, junk)
    ELSE LET entry == [path |-> Zeros(junk),
                       content_hash |-> U64(junk),
                       size |-> U64(junk),
                       mtime |-> U64(junk),
                       language |-> junk,
                       is_indexed |-> junk # 0]
         IN  ReadEntriesStream(bytes, Len(bytes) + 1, remaining - 1,
                [q \in (DOMAIN acc) \cup {entry.path} |->
                    IF q = entry.path THEN entry ELSE acc[q]], junk)

\* FileIndex::load of a file that holds at least the magic and the version and
\* that, if it is cut, is cut after the header, after the count or after the
\* entries; junk is the value the indeterminate objects hold
load_stream(x, bytes, junk) ==
    IF U32At(bytes, 1) # IndexMagic \/ U32At(bytes, 5) # IndexVersion
    THEN [ok |-> FALSE, index |-> x]
    ELSE LET count == IF Len(bytes) >= 12 THEN U32At(bytes, 9) ELSE junk
             read == ReadEntriesStream(bytes, 13, count, <<>>, junk)
             merkle_size == IF read.pos + 3 <= Len(bytes)
                            THEN U32At(bytes, read.pos) ELSE junk
             got == IF read.pos + 3 <= Len(bytes)
                    THEN SubSeq(bytes, read.pos + 4, Len(bytes)) ELSE <<>>
             \* std::vector<uint8_t> merkle_data(merkle_size), filled by read
             merkle_data == [i \in 1..merkle_size |->
                                IF i <= Len(got) THEN got[i] ELSE 0]
         IN  [ok |-> TRUE,
              index |-> [entries |-> read.entries,
                         merkle |-> deserialize(x.merkle, merkle_data).tree]]

-----------------------------------------------------------------------------
(* MerkleTree operations on the two trees *)

InitSerial ==
    /\ data = <<>>
    /\ restored = EmptyTree
    /\ restored_ok = "none"
    /\ expect_root = Zero64
    /\ corrupt_kind = "none"
    /\ corrupt_ok = "none"

EmptyDiffResult ==
    [changes |-> <<>>, added_count |-> 0, modified_count |-> 0,
     deleted_count |-> 0, renamed_count |-> 0]

IdleDiff ==
    /\ old_files = <<>>
    /\ new_files = <<>>
    /\ detect_renames_enabled = TRUE
    /\ result = EmptyDiffResult
    /\ diff_pc = "idle"

IdleHasher ==
    /\ paths = <<>>
    /\ num_workers_arg = 0
    /\ hardware_concurrency = 0
    /\ num_workers = 0
    /\ results = <<>>
    /\ next_index = 0
    /\ wpc = <<>>
    /\ widx = <<>>
    /\ hpc = "idle"
    /\ writes = <<>>
    /\ claimed = <<>>

IdleIndex ==
    /\ index = EmptyIndex
    /\ file = <<>>
    /\ loaded = EmptyIndex
    /\ load_ok = "none"
    /\ saved_all = {}
    /\ saved_hash = Zero64

NoAccess == [used |-> FALSE, destroyed |-> FALSE, overwritten |-> FALSE,
             under_mutex |-> FALSE]

IdleConc ==
    /\ fi_mutex = "free"
    /\ fi_entries = <<>>
    /\ reader_pc = "idle"
    /\ reader_path = <<>>
    /\ reader_ptr = [null |-> TRUE, path |-> <<>>, live |-> FALSE]
    /\ reader_access = NoAccess
    /\ writer_pc = "idle"
    /\ writer_op = [op |-> "none", path |-> <<>>, hash |-> Zero64]
    /\ conc_ops = 0

IdleLoad ==
    /\ load_kind = "none"
    /\ bad_load_ok = "none"
    /\ index_before = EmptyIndex

DefaultConfig ==
    [max_chunk_tokens |-> 0, min_chunk_tokens |-> 0, overlap_tokens |-> 0,
     respect_boundaries |-> FALSE, include_context |-> FALSE,
     language |-> "UNKNOWN"]

IdleChunk ==
    /\ source = <<>>
    /\ config = DefaultConfig
    /\ boundaries = <<>>
    /\ regions = <<>>
    /\ region_i = 0
    /\ chunks = <<>>
    /\ chunk_index = 0
    /\ split_pos = 0
    /\ overlap_bytes = 0
    /\ cpc = "idle"

IdleTok ==
    /\ tk_text = <<>>
    /\ tk_pc = "idle"
    /\ tk_arg = 0
    /\ tk_count = 0
    /\ tk_boundary = 0
    /\ tk_parts = <<0, 0>>

IdleMemo ==
    /\ root_ret = Zero64
    /\ root_fresh = FALSE

\* "**/node_modules/**", "**/.git/**", "**/dist/**", "**/build/**", "**/__pycache__/**",
\* "**/*.min.js", "**/*.min.css", "**/vendor/**", "**/.venv/**", "**/target/**"
DefaultExcludePatterns ==
    <<<<42, 42, 47, 110, 111, 100, 101, 95, 109, 111, 100, 117, 108, 101, 115, 47, 42, 42>>,
      <<42, 42, 47, 46, 103, 105, 116, 47, 42, 42>>,
      <<42, 42, 47, 100, 105, 115, 116, 47, 42, 42>>,
      <<42, 42, 47, 98, 117, 105, 108, 100, 47, 42, 42>>,
      <<42, 42, 47, 95, 95, 112, 121, 99, 97, 99, 104, 101, 95, 95, 47, 42, 42>>,
      <<42, 42, 47, 42, 46, 109, 105, 110, 46, 106, 115>>,
      <<42, 42, 47, 42, 46, 109, 105, 110, 46, 99, 115, 115>>,
      <<42, 42, 47, 118, 101, 110, 100, 111, 114, 47, 42, 42>>,
      <<42, 42, 47, 46, 118, 101, 110, 118, 47, 42, 42>>,
      <<42, 42, 47, 116, 97, 114, 103, 101, 116, 47, 42, 42>>>>

\* IndexerConfig as the Indexer constructor leaves it for an empty exclude list
IndexerConfig(with_renames) ==
    [include_patterns |-> <<>>,
     exclude_patterns |-> DefaultExcludePatterns,
     compute_content_hash |-> TRUE,
     detect_renames |-> with_renames]

ScanResult(files, directories, size, num_files, num_dirs, error) ==
    [files |-> files, directories |-> directories, total_size |-> size,
     total_files |-> num_files, total_dirs |-> num_dirs, error |-> error]

EmptyScanResult == ScanResult(<<>>, <<>>, 0, 0, 0, "")

DiffResult(d, error) ==
    [changes |-> d.changes, added_count |-> d.added_count,
     modified_count |-> d.modified_count, deleted_count |-> d.deleted_count,
     renamed_count |-> d.renamed_count, error |-> error]

IdleScan ==
    /\ fs_files = {}
    /\ fs_root = "directory"
    /\ ix_config = IndexerConfig(TRUE)
    /\ previous_index = <<>>
    /\ scan_result = EmptyScanResult
    /\ update_result = DiffResult(EmptyDiffResult, "")
    /\ ix_pc = "idle"

NoCalls == [empty |-> FALSE, small |-> FALSE]

IdleStream ==
    /\ xs_data = <<>>
    /\ xs_fed = 0
    /\ xs_stream = XXHash64Stream(Zero64, [i \in 1..32 |-> 0])
    /\ xs_calls = NoCalls
    /\ xs_ops = 0
    /\ xs_digest = Zero64
    /\ xs_pc = "idle"

IdleDetect ==
    /\ dt_source = <<>>
    /\ dt_language = "JAVASCRIPT"
    /\ dt_boundaries = <<>>
    /\ dt_pc = "idle"

IdleLate == IdleTok /\ IdleMemo /\ IdleScan /\ IdleStream /\ IdleDetect

IdleLater == IdleConc /\ IdleLoad /\ IdleChunk /\ IdleLate

InitMerkle ==
    /\ tree = EmptyTree
    /\ other = EmptyTree
    /\ ops = 0
    /\ InitSerial
    /\ IdleDiff
    /\ IdleIndex
    /\ IdleHasher
    /\ IdleLater

AddFile(p, h) ==
    /\ ops < MaxOps
    /\ ops' = ops + 1
    /\ tree' = add_file(tree, p, h)
    /\ UNCHANGED <<other, serialVars, outsideTrees>>

RemoveFile(p) ==
    /\ ops < MaxOps
    /\ ops' = ops + 1
    /\ tree' = remove_file(tree, p)
    /\ UNCHANGED <<other, serialVars, outsideTrees>>

RootHash ==
    /\ tree' = root_hash_state(tree)
    /\ UNCHANGED <<other, ops, serialVars, outsideTrees>>

OtherAddFile(p, h) ==
    /\ ops < MaxOps
    /\ ops' = ops + 1
    /\ other' = add_file(other, p, h)
    /\ UNCHANGED <<tree, serialVars, outsideTrees>>

OtherRemoveFile(p) ==
    /\ ops < MaxOps
    /\ ops' = ops + 1
    /\ other' = remove_file(other, p)
    /\ UNCHANGED <<tree, serialVars, outsideTrees>>

OtherRootHash ==
    /\ other' = root_hash_state(other)
    /\ UNCHANGED <<tree, ops, serialVars, outsideTrees>>

NextMerkle ==
    \/ \E p \in Paths, h \in Hashes : AddFile(p, h)
    \/ \E p \in Paths : RemoveFile(p)
    \/ RootHash
    \/ \E p \in Paths, h \in Hashes : OtherAddFile(p, h)
    \/ \E p \in Paths : OtherRemoveFile(p)
    \/ OtherRootHash

SpecMerkle == InitMerkle /\ [][NextMerkle]_vars

\* One tree under add_file, remove_file, clear, compute_hash and root_hash
TreeAddFile(p, h) ==
    /\ ops < MaxOps
    /\ ops' = ops + 1
    /\ tree' = add_file(tree, p, h)
    /\ root_fresh' = FALSE
    /\ UNCHANGED <<root_ret, outsideMemo>>

TreeRemoveFile(p) ==
    /\ ops < MaxOps
    /\ ops' = ops + 1
    /\ tree' = remove_file(tree, p)
    /\ root_fresh' = FALSE
    /\ UNCHANGED <<root_ret, outsideMemo>>

TreeClear ==
    /\ tree' = clear(tree)
    /\ root_fresh' = FALSE
    /\ UNCHANGED <<ops, root_ret, outsideMemo>>

TreeComputeHash(dir_path) ==
    /\ tree' = compute_hash_state(tree, dir_path)
    /\ UNCHANGED <<ops, root_ret, root_fresh, outsideMemo>>

TreeRootHash ==
    /\ tree' = root_hash_state(tree)
    /\ root_ret' = root_hash(tree)
    /\ root_fresh' = TRUE
    /\ UNCHANGED <<ops, outsideMemo>>

NextMemo ==
    \/ \E p \in Paths, h \in Hashes : TreeAddFile(p, h)
    \/ \E p \in Paths : TreeRemoveFile(p)
    \/ TreeClear
    \/ \E dir_path \in Paths \cup {<<>>} : TreeComputeHash(dir_path)
    \/ TreeRootHash

SpecMemo == InitMerkle /\ [][NextMemo]_vars

\* U.deserialize(T.serialize()) into a fresh tree U
Serialize ==
    /\ data' = serialize(tree)
    /\ expect_root' = root_hash(tree)
    /\ restored' = EmptyTree
    /\ restored_ok' = "none"
    /\ UNCHANGED <<merkleVars, corrupt_kind, corrupt_ok, outsideTrees>>

Deserialize ==
    /\ data # <<>>
    /\ restored_ok = "none"
    /\ LET r == deserialize(EmptyTree, data)
       IN  /\ restored' = r.tree
           /\ restored_ok' = IF r.ok THEN "true" ELSE "false"
    /\ UNCHANGED <<merkleVars, data, expect_root, corrupt_kind, corrupt_ok,
                   outsideTrees>>

\* the inputs deserialize has to reject, made from a valid serialization:
\* another magic, another version, or the first n bytes only
CorruptKinds == {"magic", "version", "truncated"}

Corrupt(bytes, kind, n) ==
    CASE kind = "magic" ->
            U32Bytes(IndexMagic) \o SubSeq(bytes, 5, Len(bytes))
      [] kind = "version" ->
            SubSeq(bytes, 1, 4) \o U32Bytes(MerkleVersion + 1 + n)
            \o SubSeq(bytes, 9, Len(bytes))
      [] OTHER -> SubSeq(bytes, 1, n)

\* tree.deserialize(bad), bad a damaged copy of the tree's own serialization;
\* made once in a behaviour
DeserializeCorrupt(kind, n) ==
    /\ corrupt_kind = "none"
    /\ kind # "truncated" => n <= 1
    /\ LET r == deserialize(tree, Corrupt(serialize(tree), kind, n))
       IN  /\ tree' = r.tree
           /\ corrupt_ok' = IF r.ok THEN "true" ELSE "false"
    /\ corrupt_kind' = IF kind = "truncated" /\ n >= 8 THEN "truncated node"
                       ELSE kind
    /\ UNCHANGED <<other, ops, data, restored, restored_ok, expect_root,
                   outsideTrees>>

NextCorrupt ==
    \/ \E p \in Paths, h \in Hashes : AddFile(p, h)
    \/ \E p \in Paths : RemoveFile(p)
    \/ RootHash
    \/ \E kind \in CorruptKinds, n \in 0..(Len(serialize(tree)) - 1) :
          DeserializeCorrupt(kind, n)

SpecCorrupt == InitMerkle /\ [][NextCorrupt]_vars

NextSerial ==
    \/ \E p \in Paths, h \in Hashes : AddFile(p, h)
    \/ \E p \in Paths : RemoveFile(p)
    \/ RootHash
    \/ Serialize
    \/ Deserialize

SpecSerial == InitMerkle /\ [][NextSerial]_vars

-----------------------------------------------------------------------------
(* Claims about MerkleTree *)

Set(seq) == {seq[i] : i \in 1..Len(seq)}

\* the (path, hash) files a tree holds
FileSet(t) ==
    {<<k, t.nodes[k].hash>> : k \in {c \in DOMAIN t.nodes : t.nodes[c].is_file}}

\* C2: root_hash() depends only on the current set of (path, hash) files: two
\* trees holding the same files have the same root hash, whatever add_file and
\* remove_file calls produced them.
C2_RootHashDependsOnlyOnFiles ==
    FileSet(tree) = FileSet(other) => root_hash(tree) = root_hash(other)

\* C3: after U.deserialize(T.serialize()) returned true on a fresh U,
\* U.root_hash() equals T.root_hash().
C3_RoundTripRootHash ==
    restored_ok = "true" => root_hash(restored) = expect_root

\* C12: deserialize of an input with a wrong magic, a wrong version or cut
\* short of a valid serialization returns false and leaves the tree's nodes,
\* hashes and dirty flag as they were.
C12_DeserializeRejectsAndKeepsTree ==
    [][(corrupt_kind = "none" /\ corrupt_kind' # "none")
          => (corrupt_ok' = "false" /\ tree' = tree)]_vars

\* a tree with files and unsaved changes has rejected an input that was cut
\* inside a node
C12_Witness ==
    /\ corrupt_kind = "truncated node"
    /\ corrupt_ok = "false"
    /\ tree.dirty
    /\ \E k \in DOMAIN tree.nodes : tree.nodes[k].is_file

\* C8: T.diff(T) is empty, and T.diff(T') and T'.diff(T) name the same paths.
C8_DiffEmptyAndSymmetric ==
    /\ diff(tree, tree) = <<>>
    /\ diff(other, other) = <<>>
    /\ Set(diff(tree, other)) = Set(diff(other, tree))

\* two different trees whose diff reports a path present on one side only
C8_Witness ==
    /\ diff(tree, other) # <<>>
    /\ \E k \in DOMAIN tree.nodes : k \notin DOMAIN other.nodes

\* C25: the memoized root hash is never stale: the value root_hash() returned
\* is the hash of the whole tree recomputed bottom-up, and as long as no
\* add_file, remove_file or clear follows, another root_hash() call returns
\* that value again.
C25_RootHashNeverStale ==
    /\ root_fresh => /\ root_ret = compute_node_hash(tree.nodes, <<>>)
                     /\ root_hash(tree) = root_ret
    /\ root_hash(tree) = compute_node_hash(tree.nodes, <<>>)

\* root_hash() was called on a tree with a file in a directory and no
\* mutation followed
C25_Witness ==
    /\ root_fresh
    /\ ~tree.dirty
    /\ root_ret # Zero64
    /\ \E k \in DOMAIN tree.nodes : Len(k) = 2 /\ tree.nodes[k].is_file

\* the path string collect_diff builds for the node with key k
RECURSIVE JoinPath(_)
JoinPath(k) ==
    IF k = <<>> THEN <<>>
    ELSE IF Len(k) = 1 THEN k[1]
    ELSE JoinPath(SubSeq(k, 1, Len(k) - 1)) \o <<Slash>> \o Last(k)

\* the (path, hash) files of the subtree at key k
SubtreeFiles(t, k) == {f \in FileSet(t) : IsPrefix(k, f[1])}

\* C26: a path appears in tree.diff(other) if and only if the subtrees at
\* that path differ in their set of files or in a content hash, whether or
\* not root_hash() was called on either tree.
C26_DiffNamesDifferingSubtrees ==
    \A k \in ((DOMAIN tree.nodes) \cup (DOMAIN other.nodes)) \ {<<>>} :
        (JoinPath(k) \in Set(diff(tree, other))) <=>
            (SubtreeFiles(tree, k) # SubtreeFiles(other, k))

-----------------------------------------------------------------------------
(* Indexer::detect_renames and Indexer::diff *)

\* The iteration order of the unordered maps is unspecified; the lists below
\* follow the order of the scans' file vectors.

PathsOf(files) == {files[i].path : i \in 1..Len(files)}

\* old_hashes[hash] / new_hashes[hash]: the paths with that hash, in list order
HashBucket(files, hash) ==
    LET sel == SelectSeq(files, LAMBDA e : e.content_hash = hash)
    IN  [i \in 1..Len(sel) |-> sel[i].path]

\* the keys of old_hashes: the nonzero hashes of the old list, each once
RECURSIVE HashKeys(_, _)
HashKeys(files, seen) ==
    IF files = <<>> THEN <<>>
    ELSE LET h == Head(files).content_hash
         IN  IF h = Zero64 \/ h \in seen THEN HashKeys(Tail(files), seen)
             ELSE <<h>> \o HashKeys(Tail(files), seen \cup {h})

RenamedChange(old_path, new_path, hash) ==
    [type |-> "RENAMED", path |-> new_path, old_path |-> old_path,
     old_hash |-> hash, new_hash |-> hash]

ExistedBefore_Unchecked(new_path, old_paths) == FALSE

\* `if (old_paths.count(new_path)) continue;`
ExistedBefore(new_path, old_paths) == new_path \in old_paths

detect_renames(olds, news) ==
    LET old_paths == PathsOf(olds)
        new_paths == PathsOf(news)
        keys == HashKeys(olds, {})
        ForOld(old_path, hash) ==
            IF old_path \in new_paths THEN <<>>
            ELSE LET cands == SelectSeq(HashBucket(news, hash),
                                LAMBDA np : ~ExistedBefore(np, old_paths))
                 IN  [j \in 1..Len(cands) |->
                        RenamedChange(old_path, cands[j], hash)]
        ForHash(hash) ==
            LET bucket == HashBucket(olds, hash)
            IN  Concat([i \in 1..Len(bucket) |-> ForOld(bucket[i], hash)])
    IN  Concat([n \in 1..Len(keys) |-> ForHash(keys[n])])

\* old_files / new_files maps of Indexer::diff: the entry stored for a path
\* (a later entry of the list overwrites an earlier one)
EntryFor(files, path) ==
    LET idx == {i \in 1..Len(files) : files[i].path = path}
    IN  files[CHOOSE i \in idx : \A j \in idx : j <= i]

SkipRenamedNew_Never(path, renamed_new_paths) == FALSE

\* `if (renamed_new_paths.count(path)) continue;`
SkipRenamedNew(path, renamed_new_paths) == path \in renamed_new_paths

\* the changes of the "added and modified" pass for one new path
AddedOrModified(olds, news, path, renamed_new_paths) ==
    IF SkipRenamedNew(path, renamed_new_paths) THEN <<>>
    ELSE IF path \notin PathsOf(olds)
    THEN <<[type |-> "ADDED", path |-> path, old_path |-> <<>>,
            old_hash |-> Zero64,
            new_hash |-> EntryFor(news, path).content_hash]>>
    ELSE IF EntryFor(olds, path).content_hash # EntryFor(news, path).content_hash
    THEN <<[type |-> "MODIFIED", path |-> path, old_path |-> <<>>,
            old_hash |-> EntryFor(olds, path).content_hash,
            new_hash |-> EntryFor(news, path).content_hash]>>
    ELSE <<>>

\* the changes of the "deleted" pass for one old path
Deleted(olds, news, path, renamed_old_paths) ==
    IF path \in renamed_old_paths THEN <<>>
    ELSE IF path \notin PathsOf(news)
    THEN <<[type |-> "DELETED", path |-> path, old_path |-> <<>>,
            old_hash |-> EntryFor(olds, path).content_hash,
            new_hash |-> Zero64]>>
    ELSE <<>>

CountType(changes, t) == Len(SelectSeq(changes, LAMBDA c : c.type = t))

\* Indexer::diff(old_scan, new_scan)
IndexerDiff(olds, news, with_renames) ==
    LET renames == IF with_renames THEN detect_renames(olds, news) ELSE <<>>
        renamed_old_paths == {renames[i].old_path : i \in 1..Len(renames)}
        renamed_new_paths == {renames[i].path : i \in 1..Len(renames)}
        added == Concat([i \in 1..Len(news) |->
                    AddedOrModified(olds, news, news[i].path, renamed_new_paths)])
        deleted == Concat([i \in 1..Len(olds) |->
                    Deleted(olds, news, olds[i].path, renamed_old_paths)])
        changes == renames \o added \o deleted
    IN  [changes |-> changes,
         added_count |-> CountType(changes, "ADDED"),
         modified_count |-> CountType(changes, "MODIFIED"),
         deleted_count |-> CountType(changes, "DELETED"),
         renamed_count |-> CountType(changes, "RENAMED")]

\* "a", "b", "c", "d"
ScanPaths == {<<97>>, <<98>>, <<99>>, <<100>>}

\* content_hash 0 means "hash not computed"
ScanEntries == [path : ScanPaths, content_hash : Hashes \cup {Zero64}]

\* file lists as a scan or FileIndex::get_all produce them: one entry per path
RECURSIVE ScanListsOfLen(_)
ScanListsOfLen(k) ==
    IF k = 0 THEN {<<>>}
    ELSE UNION {{Append(l, e) : e \in {x \in ScanEntries : x.path \notin PathsOf(l)}} :
                   l \in ScanListsOfLen(k - 1)}

ScanLists(n) == UNION {ScanListsOfLen(k) : k \in 0..n}

InitDiff ==
    /\ \E k \in 0..MaxFiles :
          /\ old_files \in ScanLists(k)
          /\ new_files \in ScanLists(MaxFiles - k)
    /\ detect_renames_enabled \in BOOLEAN
    /\ result = EmptyDiffResult
    /\ diff_pc = "call"
    /\ tree = EmptyTree
    /\ other = EmptyTree
    /\ ops = 0
    /\ InitSerial
    /\ IdleIndex
    /\ IdleHasher
    /\ IdleLater

Diff ==
    /\ diff_pc = "call"
    /\ result' = IndexerDiff(old_files, new_files, detect_renames_enabled)
    /\ diff_pc' = "done"
    /\ UNCHANGED <<old_files, new_files, detect_renames_enabled, outsideDiff>>

NextDiff == Diff

SpecDiff == InitDiff /\ [][NextDiff]_vars

-----------------------------------------------------------------------------
(* Claims about Indexer::diff *)

Changes(t) == {c \in Set(result.changes) : c.type = t}

NumRenamedWith(field, p) ==
    Len(SelectSeq(result.changes, LAMBDA c : c.type = "RENAMED" /\ c[field] = p))

HashIn(files, p) == EntryFor(files, p).content_hash

\* C1: with detect_renames enabled, each old path is the old_path of at most
\* one Renamed record and each new path is the path of at most one Renamed record.
C1_RenamePairsConsumeOnce ==
    (diff_pc = "done" /\ detect_renames_enabled) =>
        /\ \A p \in PathsOf(old_files) : NumRenamedWith("old_path", p) <= 1
        /\ \A p \in PathsOf(new_files) : NumRenamedWith("path", p) <= 1

\* C6: diff is complete: every path of exactly one scan is the path of an
\* Added or Deleted record or the path or old_path of a Renamed record, and
\* every path of both scans whose hashes differ is the path of a Modified record.
C6_DiffComplete ==
    diff_pc = "done" =>
        /\ \A p \in PathsOf(new_files) \ PathsOf(old_files) :
              \/ \E c \in Changes("ADDED") : c.path = p
              \/ \E c \in Changes("RENAMED") : c.path = p
        /\ \A p \in PathsOf(old_files) \ PathsOf(new_files) :
              \/ \E c \in Changes("DELETED") : c.path = p
              \/ \E c \in Changes("RENAMED") : c.old_path = p
        /\ \A p \in PathsOf(old_files) \cap PathsOf(new_files) :
              HashIn(old_files, p) # HashIn(new_files, p)
                  => \E c \in Changes("MODIFIED") : c.path = p

\* a diff that renamed one file and found another one modified
C6_Witness ==
    /\ diff_pc = "done"
    /\ Changes("RENAMED") # {}
    /\ Changes("MODIFIED") # {}

\* C7: no path of a Renamed record (old_path or path) is also the path of an
\* Added, Modified or Deleted record.
C7_RenamedExcludedFromLaterPasses ==
    diff_pc = "done" =>
        \A r \in Changes("RENAMED") :
            \A c \in Changes("ADDED") \cup Changes("MODIFIED") \cup Changes("DELETED") :
                c.path # r.path /\ c.path # r.old_path

\* a diff with a Renamed record next to an Added and a Deleted record
C7_Witness ==
    /\ diff_pc = "done"
    /\ Changes("RENAMED") # {}
    /\ Changes("ADDED") # {}
    /\ Changes("DELETED") # {}

-----------------------------------------------------------------------------
(* FileIndex operations *)

InitIndex == InitMerkle

IndexAdd(p, h, ix) ==
    /\ file = <<>>
    /\ ops < MaxIndexOps
    /\ ops' = ops + 1
    /\ index' = index_add(index, FileEntry(p, h, ix))
    /\ UNCHANGED <<file, loaded, load_ok, saved_all, saved_hash, outsideIndex>>

IndexRemove(p) ==
    /\ file = <<>>
    /\ ops < MaxIndexOps
    /\ ops' = ops + 1
    /\ index' = index_remove(index, p)
    /\ UNCHANGED <<file, loaded, load_ok, saved_all, saved_hash, outsideIndex>>

IndexClear ==
    /\ file = <<>>
    /\ ops < MaxIndexOps
    /\ ops' = ops + 1
    /\ index' = index_clear(index)
    /\ UNCHANGED <<file, loaded, load_ok, saved_all, saved_hash, outsideIndex>>

IndexMerkleHash ==
    /\ file = <<>>
    /\ index' = merkle_hash_state(index)
    /\ UNCHANGED <<ops, file, loaded, load_ok, saved_all, saved_hash, outsideIndex>>

\* X.save(f); the index is no longer modified once it has been saved
IndexSave ==
    /\ file = <<>>
    /\ \E order \in Orders(DOMAIN index.entries) : file' = save(index, order)
    /\ saved_all' = get_all(index)
    /\ saved_hash' = merkle_hash(index)
    /\ loaded' = EmptyIndex
    /\ load_ok' = "none"
    /\ UNCHANGED <<ops, index, outsideIndex>>

\* Y.load(f) on a fresh FileIndex Y
IndexLoad ==
    /\ file # <<>>
    /\ load_ok = "none"
    /\ LET r == load(EmptyIndex, file)
       IN  /\ loaded' = r.index
           /\ load_ok' = IF r.ok THEN "true" ELSE "false"
    /\ UNCHANGED <<ops, index, file, saved_all, saved_hash, outsideIndex>>

NextIndex ==
    \/ \E p \in Paths, h \in Hashes, ix \in BOOLEAN : IndexAdd(p, h, ix)
    \/ \E p \in Paths : IndexRemove(p)
    \/ IndexClear
    \/ IndexMerkleHash
    \/ IndexSave
    \/ IndexLoad

SpecIndex == InitIndex /\ [][NextIndex]_vars

\* the files load has to reject, made from a saved index: another magic,
\* another version, cut after the header (n = 0) or after the count (n = 1),
\* or the Merkle blob's own magic replaced
LoadKinds == {"magic", "version", "truncated", "merkle"}

Damage(bytes, kind, n, blob_len) ==
    CASE kind = "magic" -> U32Bytes(MerkleMagic) \o SubSeq(bytes, 5, Len(bytes))
      [] kind = "version" ->
            SubSeq(bytes, 1, 4) \o U32Bytes(IndexVersion + 1)
            \o SubSeq(bytes, 9, Len(bytes))
      [] kind = "truncated" -> SubSeq(bytes, 1, 8 + 4 * n)
      [] OTHER ->
            SubSeq(bytes, 1, Len(bytes) - blob_len) \o U32Bytes(IndexMagic)
            \o SubSeq(bytes, Len(bytes) - blob_len + 5, Len(bytes))

\* X.load(bad) on the index that wrote the file, bad a damaged copy of it
IndexLoadDamaged(kind, n, junk) ==
    /\ file # <<>>
    /\ load_kind = "none"
    /\ LET bad == Damage(file, kind, n, Len(serialize(index.merkle)))
           r == load_stream(index, bad, junk)
       IN  /\ index' = r.index
           /\ bad_load_ok' = IF r.ok THEN "true" ELSE "false"
    /\ load_kind' = kind
    /\ index_before' = index
    /\ UNCHANGED <<ops, file, loaded, load_ok, saved_all, saved_hash, outsideLoad>>

NextLoad ==
    \/ \E p \in Paths, h \in Hashes, ix \in BOOLEAN : IndexAdd(p, h, ix)
    \/ IndexMerkleHash
    \/ IndexSave
    \/ \E kind \in LoadKinds, n \in 0..1, junk \in Indeterminate :
          IndexLoadDamaged(kind, n, junk)

SpecLoad == InitIndex /\ [][NextLoad]_vars

-----------------------------------------------------------------------------
(* Claims about FileIndex *)

\* C13: load of a file with a wrong magic, a wrong version, cut after the
\* header or carrying a Merkle blob that does not deserialize returns false and
\* leaves the entries and the Merkle tree as they were.
C13_LoadRejectsAndKeepsIndex ==
    load_kind # "none" => bad_load_ok = "false" /\ index = index_before

\* C4: save(f) then load(f) into a fresh FileIndex Y gives Y.get_all() equal
\* to X.get_all() as a set and Y.merkle_hash() equal to X.merkle_hash().
C4_SaveLoadRoundTrip ==
    load_ok = "true" =>
        /\ get_all(loaded) = saved_all
        /\ merkle_hash(loaded) = saved_hash

FileKeys(t) == {k \in DOMAIN t.nodes : t.nodes[k].is_file}

\* C5: the paths of the entry map are exactly the file nodes of the owned
\* Merkle tree (paths compared by their components), and each file node's hash
\* is the content_hash of the entry with that path.
C5_EntriesMirrorTree ==
    /\ {split_path(q) : q \in DOMAIN index.entries} = FileKeys(index.merkle)
    /\ \A q \in DOMAIN index.entries :
          split_path(q) \in DOMAIN index.merkle.nodes
            => index.merkle.nodes[split_path(q)].hash
                 = index.entries[q].content_hash

-----------------------------------------------------------------------------
(* FileHasher *)

\* xxHash64 of zero bytes with seed 0 (0xEF46DB3751D8E999): what
\* XXHash64Stream::finalize returns when update was never called
XXH64_EMPTY == <<59801, 20952, 56119, 61254>>

\* A file as hash_file_impl sees it: whether MappedFile::open succeeds, whether
\* std::ifstream opens it, whether it has no bytes, and the xxHash64 of its bytes.
HashedFile(map_ok, open_ok, is_empty, digest) ==
    [mmap_ok |-> map_ok, open_ok |-> open_ok, empty |-> is_empty,
     digest |-> IF is_empty THEN XXH64_EMPTY ELSE digest]

FileKinds ==
    { HashedFile(TRUE, TRUE, FALSE, U64(1)),    \* mapped and hashed one-shot
      HashedFile(TRUE, TRUE, TRUE, Zero64),     \* empty file
      HashedFile(FALSE, TRUE, FALSE, U64(2)),   \* mmap fails, streamed
      HashedFile(FALSE, FALSE, FALSE, U64(1)) } \* cannot be opened at all

hash_file_impl_NoOpenCheck(f) ==
    IF f.mmap_ok THEN (IF f.empty THEN Zero64 ELSE f.digest)
    ELSE IF ~f.open_ok THEN XXH64_EMPTY
    ELSE f.digest

\* FileHasher::Impl::hash_file_impl
hash_file_impl(f) ==
    IF f.mmap_ok THEN (IF f.empty THEN Zero64 ELSE f.digest)
    ELSE IF ~f.open_ok THEN Zero64
    ELSE f.digest

Min(a, b) == IF a < b THEN a ELSE b
Max(a, b) == IF a > b THEN a ELSE b

\* next_index.fetch_add(1): the value returned and the value stored
fetch_add(v) == [old |-> v, new |-> v + 1]

Workers == 1..num_workers

InitHasher ==
    /\ paths \in UNION {[1..n -> FileKinds] : n \in 0..MaxPaths}
    /\ num_workers_arg \in 0..MaxWorkers
    /\ hardware_concurrency \in 0..MaxWorkers
    /\ num_workers = 0
    /\ results = <<>>
    /\ next_index = 0
    /\ wpc = <<>>
    /\ widx = <<>>
    /\ hpc = "call"
    /\ writes = <<>>
    /\ claimed = <<>>
    /\ tree = EmptyTree
    /\ other = EmptyTree
    /\ ops = 0
    /\ InitSerial
    /\ IdleDiff
    /\ IdleIndex
    /\ IdleLater

\* hash_files_parallel up to the point where the workers are launched
HashFilesParallel ==
    /\ hpc = "call"
    /\ LET n == Len(paths)
           clamped == Max(Min(num_workers_arg, hardware_concurrency), 1)
       IN  /\ num_workers' = clamped
           /\ IF n = 0
              THEN /\ results' = <<>>
                   /\ writes' = <<>>
                   /\ claimed' = <<>>
                   /\ hpc' = "returned"
                   /\ UNCHANGED <<wpc, widx>>
              ELSE IF n <= clamped
              THEN \* single thread: results[i] = hash_file(paths[i])
                   /\ results' = [i \in 1..n |-> hash_file_impl(paths[i])]
                   /\ writes' = [i \in 1..n |-> 1]
                   /\ claimed' = [i \in 1..n |-> {}]
                   /\ hpc' = "returned"
                   /\ UNCHANGED <<wpc, widx>>
              ELSE /\ results' = [i \in 1..n |-> Zero64]
                   /\ writes' = [i \in 1..n |-> 0]
                   /\ claimed' = [i \in 1..n |-> {}]
                   /\ wpc' = [w \in 1..clamped |-> "fetch"]
                   /\ widx' = [w \in 1..clamped |-> 0]
                   /\ hpc' = "wait"
    /\ UNCHANGED <<paths, num_workers_arg, hardware_concurrency, next_index,
                   outsideHasher>>

\* the cursor as a plain size_t: the load and the store of the increment are
\* separate steps that other workers may interleave with
WorkerFetch_NotAtomic(w) ==
    /\ hpc = "wait"
    /\ \/ /\ wpc[w] = "fetch"
          /\ widx' = [widx EXCEPT ![w] = next_index]
          /\ wpc' = [wpc EXCEPT ![w] = "store"]
          /\ UNCHANGED <<next_index, claimed>>
       \/ /\ wpc[w] = "store"
          /\ next_index' = widx[w] + 1
          /\ IF widx[w] < Len(paths)
             THEN /\ wpc' = [wpc EXCEPT ![w] = "hash"]
                  /\ claimed' = [claimed EXCEPT ![widx[w] + 1] = @ \cup {w}]
             ELSE /\ wpc' = [wpc EXCEPT ![w] = "exit"]
                  /\ UNCHANGED claimed
          /\ UNCHANGED widx
    /\ UNCHANGED <<paths, num_workers_arg, hardware_concurrency, num_workers,
                   results, hpc, writes, outsideHasher>>

\* `(idx = next_index.fetch_add(1)) < paths.size()`
WorkerFetch(w) ==
    /\ hpc = "wait"
    /\ wpc[w] = "fetch"
    /\ LET fa == fetch_add(next_index)
       IN  /\ next_index' = fa.new
           /\ widx' = [widx EXCEPT ![w] = fa.old]
           /\ IF fa.old < Len(paths)
              THEN /\ wpc' = [wpc EXCEPT ![w] = "hash"]
                   /\ claimed' = [claimed EXCEPT ![fa.old + 1] = @ \cup {w}]
              ELSE /\ wpc' = [wpc EXCEPT ![w] = "exit"]
                   /\ UNCHANGED claimed
    /\ UNCHANGED <<paths, num_workers_arg, hardware_concurrency, num_workers,
                   results, hpc, writes, outsideHasher>>

\* `results[idx] = local_hasher.hash_file(paths[idx])`
WorkerHash(w) ==
    /\ hpc = "wait"
    /\ wpc[w] = "hash"
    /\ results' = [results EXCEPT ![widx[w] + 1] = hash_file_impl(paths[widx[w] + 1])]
    /\ writes' = [writes EXCEPT ![widx[w] + 1] = @ + 1]
    /\ wpc' = [wpc EXCEPT ![w] = "fetch"]
    /\ UNCHANGED <<paths, num_workers_arg, hardware_concurrency, num_workers,
                   next_index, widx, hpc, claimed, outsideHasher>>

\* `for (auto& f : futures) f.wait();` then `return results`
WaitAndReturn ==
    /\ hpc = "wait"
    /\ \A w \in Workers : wpc[w] = "exit"
    /\ hpc' = "returned"
    /\ UNCHANGED <<paths, num_workers_arg, hardware_concurrency, num_workers,
                   results, next_index, wpc, widx, writes, claimed, outsideHasher>>

NextHasher ==
    \/ HashFilesParallel
    \/ \E w \in Workers : WorkerFetch(w)
    \/ \E w \in Workers : WorkerHash(w)
    \/ WaitAndReturn

SpecHasher == InitHasher /\ [][NextHasher]_vars

-----------------------------------------------------------------------------
(* Claims about hash_files_parallel *)

\* hashing the file fails: neither the mapping nor the stream can open it
HashingFails(f) == ~f.mmap_ok /\ ~f.open_ok

C10_EachSlotWrittenOnce ==
    /\ \A i \in 1..Len(writes) : writes[i] <= 1 /\ Cardinality(claimed[i]) <= 1
    /\ \A v, w \in DOMAIN wpc :
          (v # w /\ wpc[v] = "hash" /\ wpc[w] = "hash") => widx[v] # widx[w]
    /\ hpc = "returned" =>
          \A i \in 1..Len(paths) :
              /\ writes[i] = 1
              /\ Len(paths) > num_workers => Cardinality(claimed[i]) = 1

\* two workers ran and both claimed slots before the call returned
C10_Witness ==
    /\ hpc = "returned"
    /\ num_workers > 1
    /\ \E i, j \in 1..Len(paths) : claimed[i] # {} /\ claimed[j] # {} /\ claimed[i] # claimed[j]


-----------------------------------------------------------------------------
(* FileIndex under two threads: a reader calling get and using the entry,  *)
(* a writer calling add, remove, clear or load                             *)

MaxConcOps == 3

ConcPaths == {PathA, PathD}

NullPtr == [null |-> TRUE, path |-> <<>>, live |-> FALSE]

WriterCall(o, p, h) == [op |-> o, path |-> p, hash |-> h]

WriterCalls ==
    {WriterCall("add", p, h) : p \in ConcPaths, h \in Hashes}
    \cup {WriterCall("remove", p, Zero64) : p \in ConcPaths}
    \cup {WriterCall("clear", <<>>, Zero64), WriterCall("load", <<>>, Zero64)}

\* the entries of the file the writer's load reads
LoadedEntries == PathA :> U64(1)

InitConc ==
    /\ fi_mutex = "free"
    /\ fi_entries = <<>>
    /\ reader_pc = "idle"
    /\ reader_path = <<>>
    /\ reader_ptr = NullPtr
    /\ reader_access = NoAccess
    /\ writer_pc = "idle"
    /\ writer_op = WriterCall("none", <<>>, Zero64)
    /\ conc_ops = 0
    /\ tree = EmptyTree
    /\ other = EmptyTree
    /\ ops = 0
    /\ InitSerial
    /\ IdleDiff
    /\ IdleIndex
    /\ IdleHasher
    /\ IdleLoad
    /\ IdleChunk
    /\ IdleLate

\* std::lock_guard<std::mutex> lock(impl_->mutex) in add / remove / clear / load
WriterLock(o) ==
    /\ writer_pc = "idle"
    /\ fi_mutex = "free"
    /\ conc_ops < MaxConcOps
    /\ fi_mutex' = "writer"
    /\ writer_pc' = "locked"
    /\ writer_op' = o
    /\ conc_ops' = conc_ops + 1
    /\ UNCHANGED <<fi_entries, reader_pc, reader_path, reader_ptr, reader_access,
                   outsideConc>>

\* the entries map after the body of the writer's call
entries_after(m, o) ==
    CASE o.op = "add" ->
            [q \in (DOMAIN m) \cup {o.path} |-> IF q = o.path THEN o.hash ELSE m[q]]
      [] o.op = "remove" -> [q \in (DOMAIN m) \ {o.path} |-> m[q]]
      [] o.op = "clear" -> <<>>
      [] OTHER -> LoadedEntries

\* whether the body of the call destroys the FileEntry stored for path q:
\* erase and clear destroy the map's nodes, operator[] assigns in place
destroys(o, q) ==
    \/ o.op = "remove" /\ o.path = q
    \/ o.op = "clear"
    \/ o.op = "load"

\* the body of the writer's call and the release of the lock_guard
WriterBody ==
    /\ writer_pc = "locked"
    /\ fi_entries' = entries_after(fi_entries, writer_op)
    /\ reader_ptr' = IF ~reader_ptr.null /\ destroys(writer_op, reader_ptr.path)
                     THEN [reader_ptr EXCEPT !.live = FALSE]
                     ELSE reader_ptr
    /\ fi_mutex' = "free"
    /\ writer_pc' = "idle"
    /\ writer_op' = WriterCall("none", <<>>, Zero64)
    /\ UNCHANGED <<reader_pc, reader_path, reader_access, conc_ops, outsideConc>>

\* FileIndex::get: the lock_guard is taken
ReaderLock(p) ==
    /\ reader_pc = "idle"
    /\ fi_mutex = "free"
    /\ fi_mutex' = "reader"
    /\ reader_pc' = "locked"
    /\ reader_path' = p
    /\ UNCHANGED <<fi_entries, reader_ptr, reader_access, writer_pc, writer_op,
                   conc_ops, outsideConc>>

\* FileIndex::get: find, return &it->second or nullptr; the lock_guard is
\* released by the return
ReaderReturn ==
    /\ reader_pc = "locked"
    /\ reader_ptr' = IF reader_path \in DOMAIN fi_entries
                     THEN [null |-> FALSE, path |-> reader_path, live |-> TRUE]
                     ELSE NullPtr
    /\ fi_mutex' = "free"
    /\ reader_pc' = "holding"
    /\ UNCHANGED <<fi_entries, reader_path, reader_access, writer_pc, writer_op,
                   conc_ops, outsideConc>>

\* the caller reads the entry through the returned pointer
ReaderUse ==
    /\ reader_pc = "holding"
    /\ ~reader_ptr.null
    /\ reader_access' =
          [used |-> TRUE,
           destroyed |-> ~reader_ptr.live,
           overwritten |-> /\ writer_pc = "locked"
                           /\ writer_op.op = "add"
                           /\ writer_op.path = reader_ptr.path,
           under_mutex |-> fi_mutex = "reader"]
    /\ reader_pc' = "idle"
    /\ reader_ptr' = NullPtr
    /\ UNCHANGED <<fi_mutex, fi_entries, reader_path, writer_pc, writer_op,
                   conc_ops, outsideConc>>

\* the caller got nullptr
ReaderNull ==
    /\ reader_pc = "holding"
    /\ reader_ptr.null
    /\ reader_pc' = "idle"
    /\ UNCHANGED <<fi_mutex, fi_entries, reader_path, reader_ptr, reader_access,
                   writer_pc, writer_op, conc_ops, outsideConc>>

NextConc ==
    \/ \E o \in WriterCalls : WriterLock(o)
    \/ WriterBody
    \/ \E p \in ConcPaths : ReaderLock(p)
    \/ ReaderReturn
    \/ ReaderUse
    \/ ReaderNull

SpecConc == InitConc /\ [][NextConc]_vars

\* C11: the reader never uses an entry while the writer is overwriting it or
\* after the writer destroyed it (every access is made under the index mutex).
C11_ReaderNeverSeesDestroyedEntry ==
    reader_access.used =>
        /\ ~reader_access.destroyed
        /\ ~reader_access.overwritten


-----------------------------------------------------------------------------
(* Tokenizer::Impl (tokenizer.cpp).  Offsets are 0-based as in the code:   *)
(* the byte at offset i of text is text[i + 1].                            *)

Newline == 10

IsSpace(c) == c \in {9, 10, 11, 12, 13, 32}
IsAlpha(c) == c \in 65..90 \/ c \in 97..122
IsDigit(c) == c \in 48..57
IsPunct(c) == c \in 33..47 \/ c \in 58..64 \/ c \in 91..96 \/ c \in 123..126

\* categorize with the space taken for a letter
categorize_SpaceAsLetter(c) ==
    IF c = 10 \/ c = 13 THEN "NEWLINE"
    ELSE IF c = 32 THEN "LETTER"
    ELSE IF IsSpace(c) THEN "WHITESPACE"
    ELSE IF IsAlpha(c) \/ c = 95 \/ c >= 128 THEN "LETTER"
    ELSE IF IsDigit(c) THEN "DIGIT"
    ELSE IF IsPunct(c) THEN "PUNCTUATION"
    ELSE "OTHER"

categorize(c) ==
    IF c = 10 \/ c = 13 THEN "NEWLINE"
    ELSE IF IsSpace(c) THEN "WHITESPACE"
    ELSE IF IsAlpha(c) \/ c = 95 \/ c >= 128 THEN "LETTER"
    ELSE IF IsDigit(c) THEN "DIGIT"
    ELSE IF IsPunct(c) THEN "PUNCTUATION"
    ELSE "OTHER"

\* the offset where a run of bytes of the categories cats, starting at i, ends
RECURSIVE SkipCategories(_, _, _)
SkipCategories(text, i, cats) ==
    IF i < Len(text) /\ categorize(text[i + 1]) \in cats
    THEN SkipCategories(text, i + 1, cats)
    ELSE i

\* the bytes the DIGIT case consumes; estimate_tokens also takes a-f and A-F
NumberByte(c, hex) ==
    \/ IsDigit(c)
    \/ c \in {46, 101, 69, 43, 45, 120, 88}
    \/ hex /\ (c \in 97..102 \/ c \in 65..70)

RECURSIVE SkipNumber(_, _, _)
SkipNumber(text, i, hex) ==
    IF i < Len(text) /\ NumberByte(text[i + 1], hex)
    THEN SkipNumber(text, i + 1, hex)
    ELSE i

\* ==, !=, <=, >=, &&, ||, =>, ->, ::
BoundaryOperators ==
    {<<61, 61>>, <<33, 61>>, <<60, 61>>, <<62, 61>>, <<38, 38>>, <<124, 124>>,
     <<61, 62>>, <<45, 62>>, <<58, 58>>}

\* estimate_tokens adds ++, --, +=, -=, *=, /=
EstimateOperators ==
    BoundaryOperators \cup
    {<<43, 43>>, <<45, 45>>, <<43, 61>>, <<45, 61>>, <<42, 61>>, <<47, 61>>}

WordTokens(word_len) ==
    IF word_len <= 4 THEN 1
    ELSE IF word_len <= 8 THEN 2
    ELSE IF word_len <= 12 THEN 3
    ELSE (word_len + 3) \div 4

\* one turn of the scanning loop at offset i: the offset after the token and
\* the tokens it counts; estimating selects the variant of estimate_tokens
ScanToken(text, i, estimating) ==
    LET cat == categorize(text[i + 1]) IN
    CASE cat = "WHITESPACE" ->
            [to |-> SkipCategories(text, i, {"WHITESPACE"}), tokens |-> 1]
      [] cat = "NEWLINE" -> [to |-> i + 1, tokens |-> 1]
      [] cat = "LETTER" ->
            LET e == SkipCategories(text, i, {"LETTER", "DIGIT"})
            IN  [to |-> e, tokens |-> WordTokens(e - i)]
      [] cat = "DIGIT" ->
            LET e == SkipNumber(text, i, estimating)
            IN  [to |-> e, tokens |-> (e - i + 2) \div 3]
      [] cat = "PUNCTUATION" ->
            LET j == i + 1
                paired == /\ j < Len(text)
                          /\ <<text[i + 1], text[j + 1]>> \in
                                (IF estimating THEN EstimateOperators
                                 ELSE BoundaryOperators)
            IN  [to |-> IF ~paired THEN j
                        ELSE IF j + 1 < Len(text) /\ text[j + 2] = 61 THEN j + 2
                        ELSE j + 1,
                 tokens |-> 1]
      [] OTHER -> [to |-> i + 1, tokens |-> 1]

RECURSIVE EstimateFrom(_, _)
EstimateFrom(text, i) ==
    IF i < Len(text)
    THEN Val({t.tokens + EstimateFrom(text, t.to) : t \in {ScanToken(text, i, TRUE)}})
    ELSE 0

\* Tokenizer::count_tokens
count_tokens(text) == Val({EstimateFrom(t, 0) : t \in {text}})

RECURSIVE BoundaryFrom(_, _, _, _, _)
BoundaryFrom(text, target_tokens, i, token_count, last_good_pos) ==
    IF i < Len(text) /\ token_count < target_tokens
    THEN Val({BoundaryFrom(text, target_tokens, t.to, token_count + t.tokens, i) :
                 t \in {ScanToken(text, i, FALSE)}})
    ELSE last_good_pos

\* Tokenizer::find_token_boundary: the offset where the last token scanned
\* starts
find_token_boundary(text, target_tokens) ==
    IF text = <<>> \/ target_tokens = 0 THEN 0
    ELSE Val({BoundaryFrom(t, target_tokens, 0, 0, 0) : t \in {text}})


-----------------------------------------------------------------------------
(* BoundaryDetector (boundaries.cpp) *)

OpenBrace == 123
CloseBrace == 125

SemanticBoundary(offset, type, name, depth, start) ==
    [byte_offset |-> offset, type |-> type, name |-> name,
     scope_depth |-> depth, is_start |-> start]

\* BoundaryDetector::detect_generic
RECURSIVE GenericFrom(_, _, _, _)
GenericFrom(src, at, brace_depth, found) ==
    IF at >= Len(src) THEN found
    ELSE LET c == src[at + 1] IN
         IF c = OpenBrace
         THEN GenericFrom(src, at + 1, brace_depth + 1,
                IF brace_depth = 0
                THEN Append(found, SemanticBoundary(at, "BLOCK", <<>>, brace_depth, TRUE))
                ELSE found)
         ELSE IF c = CloseBrace
         THEN GenericFrom(src, at + 1, brace_depth - 1,
                IF brace_depth - 1 = 0
                THEN Append(found, SemanticBoundary(at, "BLOCK", <<>>, brace_depth - 1, FALSE))
                ELSE found)
         ELSE GenericFrom(src, at + 1, brace_depth, found)

detect_generic(src) == GenericFrom(src, 0, 0, <<>>)

\* the offset of the first byte c at or after offset at, Len(src) if none
RECURSIVE FindByte(_, _, _)
FindByte(src, at, c) ==
    IF at >= Len(src) \/ src[at + 1] = c THEN at ELSE FindByte(src, at + 1, c)

\* the name match[2] of the k-th function found: "f", "g", ...
FunctionName(k) == <<101 + k>>

\* BoundaryDetector::detect_javascript with the regular expressions replaced
\* by their result: functions is the set of offsets where func_regex matches.
\* scope_stack holds the types of the open scopes; a function start is
\* followed by the search for its opening brace.
RECURSIVE JavascriptFrom(_, _, _, _, _)
JavascriptFrom(src, functions, at, scope_stack, found) ==
    IF at >= Len(src) THEN found
    ELSE LET c == src[at + 1]
             scope_depth == Len(scope_stack)
         IN
         IF at \in functions
         THEN LET seen == Cardinality({i \in 1..Len(found) : found[i].is_start})
                  start == SemanticBoundary(at, "FUNCTION", FunctionName(seen + 1),
                                            scope_depth, TRUE)
                  brace == FindByte(src, at + 1, OpenBrace)
              IN  IF brace < Len(src)
                  THEN JavascriptFrom(src, functions, brace + 1,
                                      Append(scope_stack, "FUNCTION"),
                                      Append(found, start))
                  ELSE Append(found, start)
         ELSE IF c = OpenBrace
         THEN JavascriptFrom(src, functions, at + 1,
                             Append(scope_stack, "BLOCK"), found)
         ELSE IF c = CloseBrace /\ scope_stack # <<>>
         THEN JavascriptFrom(src, functions, at + 1,
                SubSeq(scope_stack, 1, scope_depth - 1),
                IF scope_stack[scope_depth] = "FUNCTION"
                THEN Append(found, SemanticBoundary(at, "FUNCTION", <<>>,
                                                    scope_depth - 1, FALSE))
                ELSE found)
         ELSE JavascriptFrom(src, functions, at + 1, scope_stack, found)

detect_javascript(src, functions) == JavascriptFrom(src, functions, 0, <<>>, <<>>)

\* the offsets where a keyword can start: a letter not preceded by a letter
KeywordStarts(src) ==
    {at \in 0..(Len(src) - 1) :
        /\ categorize(src[at + 1]) = "LETTER"
        /\ at > 0 => categorize(src[at]) # "LETTER"}

-----------------------------------------------------------------------------
(* Chunker (chunker.cpp) *)

\* std::string::substr(start, n) for start <= size
Substr(src, start, n) ==
    SubSeq(src, start + 1, IF start + n > Len(src) THEN Len(src) ELSE start + n)

RECURSIVE find_line_end(_, _)
find_line_end(src, offset) ==
    IF offset < Len(src) /\ src[offset + 1] # Newline
    THEN find_line_end(src, offset + 1)
    ELSE offset

\* the line of offset_to_location(source, offset)
LineOf(src, offset) ==
    1 + Cardinality({i \in 0..(offset - 1) : i < Len(src) /\ src[i + 1] = Newline})

Region(start, end, type, name) ==
    [start |-> start, end |-> end, type |-> type, name |-> name]

\* the first loop of create_chunks_with_boundaries and the last region
RECURSIVE RegionsFrom(_, _, _, _, _, _, _)
RegionsFrom(size, bs, i, current_start, current_type, current_name, acc) ==
    IF i > Len(bs)
    THEN IF current_start < size
         THEN Append(acc, Region(current_start, size, current_type, current_name))
         ELSE acc
    ELSE LET boundary == bs[i] IN
         IF boundary.is_start
         THEN RegionsFrom(size, bs, i + 1, boundary.byte_offset, boundary.type,
                boundary.name,
                IF boundary.byte_offset > current_start
                THEN Append(acc, Region(current_start, boundary.byte_offset,
                                        current_type, current_name))
                ELSE acc)
         ELSE LET end_offset == boundary.byte_offset + 1 IN
              IF end_offset <= size
              THEN RegionsFrom(size, bs, i + 1, end_offset, "UNKNOWN", <<>>,
                     Append(acc, Region(current_start, end_offset,
                                        current_type, current_name)))
              ELSE RegionsFrom(size, bs, i + 1, current_start, current_type,
                               current_name, acc)

\* the regions without the one that follows the last boundary
build_regions_LastDropped(src, bs) ==
    Val({IF Len(rs) > 1 THEN SubSeq(rs, 1, Len(rs) - 1) ELSE rs :
            rs \in {RegionsFrom(Len(src), bs, 1, 0, "UNKNOWN", <<>>, <<>>)}})

build_regions(src, bs) == RegionsFrom(Len(src), bs, 1, 0, "UNKNOWN", <<>>, <<>>)

all_whitespace(content) == \A i \in 1..Len(content) : IsSpace(content[i])

Min2(a, b) == IF a < b THEN a ELSE b

\* a chunk whose content is cut with the end offset in place of the length
CodeChunk_ContentToEnd(src, start, end, tokens, type, name, idx) ==
    [content |-> Substr(src, start, end),
     token_count |-> tokens,
     line_start |-> LineOf(src, start),
     line_end |-> LineOf(src, end),
     byte_offset |-> start,
     byte_length |-> end - start,
     type |-> type,
     parent_name |-> name,
     chunk_index |-> idx]

\* a chunk numbered from 1
CodeChunk_OneBased(src, start, end, tokens, type, name, idx) ==
    [content |-> Substr(src, start, end - start),
     token_count |-> tokens,
     line_start |-> LineOf(src, start),
     line_end |-> LineOf(src, end),
     byte_offset |-> start,
     byte_length |-> end - start,
     type |-> type,
     parent_name |-> name,
     chunk_index |-> idx + 1]

CodeChunk(src, start, end, tokens, type, name, idx) ==
    [content |-> Substr(src, start, end - start),
     token_count |-> tokens,
     line_start |-> LineOf(src, start),
     line_end |-> LineOf(src, end),
     byte_offset |-> start,
     byte_length |-> end - start,
     type |-> type,
     parent_name |-> name,
     chunk_index |-> idx]

\* the end of the line of offset e0, its newline included, when e0 < limit
ExtendToLineEnd(src, e0, limit) ==
    IF e0 < limit
    THEN Val({IF le < Len(src) THEN le + 1 ELSE le : le \in {find_line_end(src, e0)}})
    ELSE e0

\* the chunk [chunk_start, chunk_end) as a loop turn leaves it: its token
\* count and the overlap computed for the next turn
TurnResult(src, cfg, chunk_start, chunk_end) ==
    Val({[chunk_start |-> chunk_start,
          chunk_end |-> chunk_end,
          chunk_tokens |-> count_tokens(chunk_content),
          overlap_bytes |-> find_token_boundary(chunk_content, cfg.overlap_tokens)] :
            chunk_content \in {Substr(src, chunk_start, chunk_end - chunk_start)}})

\* chunk_end of a turn that splits the region ending at end
split_end(src, cfg, chunk_start, end) ==
    Val({Min2(ExtendToLineEnd(src, chunk_start + chunk_byte_len, end), end) :
            chunk_byte_len \in {find_token_boundary(
                                   Substr(src, chunk_start, end - chunk_start),
                                   cfg.max_chunk_tokens)}})

\* one turn of the while loop that splits the region [start, end): the byte
\* range of the chunk it emits and the overlap it computes for the next turn
split_turn(src, cfg, start, end, at, overlap) ==
    Val({Val({TurnResult(src, cfg, chunk_start, chunk_end) :
                 chunk_end \in {split_end(src, cfg, chunk_start, end)}}) :
            chunk_start \in {IF overlap > 0 /\ at > start
                             THEN at - Min2(overlap, at - start) ELSE at}})

\* chunk_end of a sliding window turn: e2 is the end at the token boundary,
\* moved to the end of the line; a chunk below min_chunk_tokens takes the
\* next line as well
sliding_end(src, cfg, chunk_start) ==
    Val({IF /\ count_tokens(Substr(src, chunk_start, e2 - chunk_start)) <
                  cfg.min_chunk_tokens
            /\ e2 < Len(src)
         THEN Val({Min2(IF le < Len(src) THEN le + 1 ELSE le, Len(src)) :
                      le \in {find_line_end(src, e2 + 1)}})
         ELSE e2 :
            e2 \in {split_end(src, cfg, chunk_start, Len(src))}})

\* one turn of the while loop of create_sliding_window_chunks
sliding_turn(src, cfg, at, overlap) ==
    Val({Val({TurnResult(src, cfg, chunk_start, chunk_end) :
                 chunk_end \in {sliding_end(src, cfg, chunk_start)}}) :
            chunk_start \in {IF overlap > 0 /\ at > 0
                             THEN at - Min2(overlap, at) ELSE at}})

\* Chunker::extract_context: the parent_name it stores in the chunk
RECURSIVE BestParent(_, _, _, _, _)
BestParent(bs, i, offset, best_depth, best_parent) ==
    IF i > Len(bs) THEN best_parent
    ELSE LET boundary == bs[i] IN
         IF /\ boundary.is_start
            /\ boundary.byte_offset <= offset
            /\ boundary.scope_depth > best_depth
            /\ boundary.type \in {"FUNCTION", "CLASS"}
         THEN BestParent(bs, i + 1, offset, boundary.scope_depth, boundary.name)
         ELSE BestParent(bs, i + 1, offset, best_depth, best_parent)

extract_context(chunk, bs) ==
    [chunk EXCEPT !.parent_name = BestParent(bs, 1, chunk.byte_offset, -1, <<>>)]


-----------------------------------------------------------------------------
(* Chunker::chunk, one action for each loop turn *)

MaxLines == 3
MaxTokens == 2
MaxFunctions == 2

\* "", "a{", "}": an empty line, a line that opens a block after a word and
\* a line that closes one
LineKinds == {<<>>, <<97, OpenBrace>>, <<CloseBrace>>}

RECURSIVE JoinLines(_)
JoinLines(lines) ==
    IF lines = <<>> THEN <<>>
    ELSE IF Len(lines) = 1 THEN lines[1]
    ELSE lines[1] \o <<Newline>> \o JoinLines(Tail(lines))

Sources == {JoinLines(l) : l \in UNION {[1..k -> LineKinds] : k \in 0..MaxLines}}

ChunkerConfig(mx, mn, ov, rb, ic, lang) ==
    [max_chunk_tokens |-> mx, min_chunk_tokens |-> mn, overlap_tokens |-> ov,
     respect_boundaries |-> rb, include_context |-> ic, language |-> lang]

\* the boundaries Chunker::chunk works with
detect(src, cfg, functions) ==
    IF ~cfg.respect_boundaries THEN <<>>
    ELSE IF cfg.language = "JAVASCRIPT" THEN detect_javascript(src, functions)
    ELSE detect_generic(src)

\* a source, a configuration and the boundaries detected for them
ChunkInput(src, cfg, bs) ==
    /\ src \in Sources
    /\ \E mx \in 0..MaxTokens, mn \in {0, MaxTokens}, ov \in 0..MaxTokens,
          rb \in BOOLEAN, ic \in BOOLEAN :
          \E functions \in {F \in SUBSET KeywordStarts(src) :
                              /\ Cardinality(F) <= MaxFunctions
                              /\ ~rb => F = {}} :
             /\ cfg = ChunkerConfig(mx, mn, ov, rb, ic,
                         IF functions = {} THEN "UNKNOWN" ELSE "JAVASCRIPT")
             /\ bs = detect(src, cfg, functions)

InitChunk ==
    /\ ChunkInput(source, config, boundaries)
    /\ regions = <<>>
    /\ region_i = 0
    /\ chunks = <<>>
    /\ chunk_index = 0
    /\ split_pos = 0
    /\ overlap_bytes = 0
    /\ cpc = "call"
    /\ tree = EmptyTree
    /\ other = EmptyTree
    /\ ops = 0
    /\ InitSerial
    /\ IdleDiff
    /\ IdleIndex
    /\ IdleHasher
    /\ IdleConc
    /\ IdleLoad
    /\ IdleLate

\* Chunker::chunk up to the choice between the two ways of chunking
ChunkCall ==
    /\ cpc = "call"
    /\ IF source = <<>>
       THEN cpc' = "done" /\ regions' = regions
       ELSE IF config.respect_boundaries /\ boundaries # <<>>
       THEN cpc' = "regions" /\ regions' = build_regions(source, boundaries)
       ELSE cpc' = "sliding" /\ regions' = regions
    /\ UNCHANGED <<source, config, boundaries, region_i, chunks, chunk_index,
                   split_pos, overlap_bytes, outsideChunk>>

\* the loop over the regions with a whitespace-only region left in place
RegionStep_NoAdvance ==
    /\ cpc = "regions"
    /\ IF region_i >= Len(regions)
       THEN /\ cpc' = "post"
            /\ UNCHANGED <<region_i, chunks, chunk_index, split_pos, overlap_bytes>>
       ELSE \E r \in {regions[region_i + 1]} :
            \E region_content \in {Substr(source, r.start, r.end - r.start)} :
            \E region_tokens \in {count_tokens(region_content)} :
                IF all_whitespace(region_content)
                THEN UNCHANGED <<region_i, cpc, chunks, chunk_index, split_pos, overlap_bytes>>
                ELSE IF region_tokens <= config.max_chunk_tokens
                THEN /\ chunks' = Append(chunks,
                            CodeChunk(source, r.start, r.end, region_tokens,
                                      r.type, r.name, chunk_index))
                     /\ chunk_index' = chunk_index + 1
                     /\ region_i' = region_i + 1
                     /\ UNCHANGED <<cpc, split_pos, overlap_bytes>>
                ELSE /\ cpc' = "split"
                     /\ split_pos' = r.start
                     /\ overlap_bytes' = 0
                     /\ UNCHANGED <<region_i, chunks, chunk_index>>
    /\ UNCHANGED <<source, config, boundaries, regions, outsideChunk>>

\* create_chunks_with_boundaries: one turn of the loop over the regions
RegionStep ==
    /\ cpc = "regions"
    /\ IF region_i >= Len(regions)
       THEN /\ cpc' = "post"
            /\ UNCHANGED <<region_i, chunks, chunk_index, split_pos, overlap_bytes>>
       ELSE \E r \in {regions[region_i + 1]} :
            \E region_content \in {Substr(source, r.start, r.end - r.start)} :
            \E region_tokens \in {count_tokens(region_content)} :
                IF all_whitespace(region_content)
                THEN /\ region_i' = region_i + 1
                     /\ UNCHANGED <<cpc, chunks, chunk_index, split_pos, overlap_bytes>>
                ELSE IF region_tokens <= config.max_chunk_tokens
                THEN /\ chunks' = Append(chunks,
                            CodeChunk(source, r.start, r.end, region_tokens,
                                      r.type, r.name, chunk_index))
                     /\ chunk_index' = chunk_index + 1
                     /\ region_i' = region_i + 1
                     /\ UNCHANGED <<cpc, split_pos, overlap_bytes>>
                ELSE /\ cpc' = "split"
                     /\ split_pos' = r.start
                     /\ overlap_bytes' = 0
                     /\ UNCHANGED <<region_i, chunks, chunk_index>>
    /\ UNCHANGED <<source, config, boundaries, regions, outsideChunk>>

\* one turn of the while loop that splits a region; the loop ends when pos
\* reaches the region end or the chunk is empty
SplitStep ==
    /\ cpc = "split"
    /\ \E r \in {regions[region_i + 1]} :
       \E t \in {split_turn(source, config, r.start, r.end, split_pos, overlap_bytes)} :
           /\ chunks' = Append(chunks,
                  CodeChunk(source, t.chunk_start, t.chunk_end, t.chunk_tokens,
                            r.type, r.name, chunk_index))
           /\ chunk_index' = chunk_index + 1
           /\ overlap_bytes' = t.overlap_bytes
           /\ split_pos' = t.chunk_end
           /\ IF t.chunk_end <= t.chunk_start \/ ~(t.chunk_end < r.end)
              THEN cpc' = "regions" /\ region_i' = region_i + 1
              ELSE UNCHANGED <<cpc, region_i>>
    /\ UNCHANGED <<source, config, boundaries, regions, outsideChunk>>

\* one turn of the while loop of create_sliding_window_chunks
SlidingStep ==
    /\ cpc = "sliding"
    /\ \E t \in {sliding_turn(source, config, split_pos, overlap_bytes)} :
           /\ chunks' = Append(chunks,
                  CodeChunk(source, t.chunk_start, t.chunk_end, t.chunk_tokens,
                            "BLOCK", <<>>, chunk_index))
           /\ chunk_index' = chunk_index + 1
           /\ overlap_bytes' = t.overlap_bytes
           /\ split_pos' = t.chunk_end
           /\ IF t.chunk_end <= t.chunk_start \/ ~(t.chunk_end < Len(source))
              THEN cpc' = "post"
              ELSE UNCHANGED cpc
    /\ UNCHANGED <<source, config, boundaries, regions, region_i, outsideChunk>>

\* the post-processing loop of Chunker::chunk and its return
PostProcess ==
    /\ cpc = "post"
    /\ chunks' = IF config.include_context /\ boundaries # <<>>
                 THEN [k \in 1..Len(chunks) |-> extract_context(chunks[k], boundaries)]
                 ELSE chunks
    /\ cpc' = "done"
    /\ UNCHANGED <<source, config, boundaries, regions, region_i, chunk_index,
                   split_pos, overlap_bytes, outsideChunk>>

NextChunk ==
    \/ ChunkCall
    \/ RegionStep
    \/ SplitStep
    \/ SlidingStep
    \/ PostProcess

SpecChunk == InitChunk /\ [][NextChunk]_vars

InitChunkIdle ==
    /\ IdleChunk
    /\ tree = EmptyTree
    /\ other = EmptyTree
    /\ ops = 0
    /\ InitSerial
    /\ IdleDiff
    /\ IdleIndex
    /\ IdleHasher
    /\ IdleConc
    /\ IdleLoad
    /\ IdleLate

\* a caller hands a source and a configuration to Chunker::chunk
Invoke ==
    /\ cpc = "idle"
    /\ ChunkInput(source', config', boundaries')
    /\ cpc' = "call"
    /\ UNCHANGED <<regions, region_i, chunks, chunk_index, split_pos,
                   overlap_bytes, outsideChunk>>

NextChunkLive ==
    \/ Invoke
    \/ ChunkCall
    \/ RegionStep
    \/ SplitStep
    \/ SlidingStep
    \/ PostProcess

\* the chunker is a sequential program: a call that can take a step takes it
SpecChunkLive == InitChunkIdle /\ [][NextChunkLive]_vars /\ WF_vars(NextChunkLive)


-----------------------------------------------------------------------------
(* Chunker claims *)

\* C14: Chunker::chunk terminates for every source and configuration: the
\* loop over the regions, the loop that splits a region and the sliding
\* window loop all come to an end and the call returns.
C14_ChunkTerminates == (cpc = "call") ~> (cpc = "done")

\* a call that returned after splitting a region with max_chunk_tokens = 0
\* into several chunks, overlap requested
C14_Witness ==
    /\ cpc = "done"
    /\ regions # <<>>
    /\ config.max_chunk_tokens = 0
    /\ config.overlap_tokens > 0
    /\ Len(chunks) > Len(regions)

\* C15: every chunk lies inside the source, byte_offset + byte_length <=
\* source.size(), and its content is exactly that slice of the source.
C15_ChunkIsSourceSlice ==
    \A k \in 1..Len(chunks) :
        /\ chunks[k].byte_offset + chunks[k].byte_length <= Len(source)
        /\ chunks[k].content =
              SubSeq(source, chunks[k].byte_offset + 1,
                     chunks[k].byte_offset + chunks[k].byte_length)

\* a returned call with a chunk that ends at the last byte of the source
\* and one that starts inside it
C15_Witness ==
    /\ cpc = "done"
    /\ \E k \in 1..Len(chunks) :
          /\ chunks[k].byte_offset > 0
          /\ chunks[k].byte_offset + chunks[k].byte_length = Len(source)
    /\ \E k \in 1..Len(chunks) : chunks[k].byte_length < Len(source)

\* C16: the k-th chunk of the result (counting from 0) has chunk_index = k.
C16_ChunkIndexDense ==
    \A k \in 1..Len(chunks) : chunks[k].chunk_index = k - 1

\* a returned call with chunks from a whole region and from a split region
C16_Witness ==
    /\ cpc = "done"
    /\ Len(chunks) >= 3
    /\ Len(regions) >= 2
    /\ Len(chunks) > Len(regions)


\* the region a chunk was cut from: the whole source in sliding window mode
RegionOf(chunk) ==
    IF regions = <<>> THEN Region(0, Len(source), "BLOCK", <<>>)
    ELSE CHOOSE r \in {regions[i] : i \in 1..Len(regions)} :
            r.start <= chunk.byte_offset /\ chunk.byte_offset < r.end

ChunkEnd(chunk) == chunk.byte_offset + chunk.byte_length

\* C17: every chunk starts at a line start (the start of its region or the
\* byte after a newline) and ends at a line end (just after a newline or at
\* the end of its region), also when the overlap moved its start back.
C17_ChunksKeepLinesWhole ==
    \A k \in 1..Len(chunks) :
        LET r == RegionOf(chunks[k])
        IN  /\ \/ chunks[k].byte_offset = r.start
               \/ source[chunks[k].byte_offset] = Newline
            /\ \/ ChunkEnd(chunks[k]) = r.end
               \/ source[ChunkEnd(chunks[k])] = Newline

\* a chunk consists of a single line: no newline before its last byte
SingleLine(chunk) ==
    \A i \in 1..(Len(chunk.content) - 1) : chunk.content[i] # Newline

\* C18: every chunk of a result but the last one, and but those that are a
\* single line, has min_chunk_tokens <= token_count <= max_chunk_tokens.
C18_TokenCountWithinLimits ==
    cpc = "done" =>
        \A k \in 1..(Len(chunks) - 1) :
            ~SingleLine(chunks[k]) =>
                /\ config.min_chunk_tokens <= chunks[k].token_count
                /\ chunks[k].token_count <= config.max_chunk_tokens

\* the chunks of the result cut from region r
ChunksOf(r) ==
    {k \in 1..Len(chunks) :
        r.start <= chunks[k].byte_offset /\ chunks[k].byte_offset < r.end}

\* C19: with respect_boundaries and include_context, a region that holds
\* more than whitespace and at most max_chunk_tokens tokens gives exactly one
\* chunk in the result, of the region's kind and with the region's own name
\* as parent_name.
C19_SmallRegionKeepsKindAndName ==
    (cpc = "done" /\ config.respect_boundaries /\ config.include_context) =>
        \A i \in 1..Len(regions) :
            LET r == regions[i]
                region_content == Substr(source, r.start, r.end - r.start)
            IN  (/\ ~all_whitespace(region_content)
                 /\ count_tokens(region_content) <= config.max_chunk_tokens) =>
                    /\ Cardinality(ChunksOf(r)) = 1
                    /\ \A k \in ChunksOf(r) :
                          /\ chunks[k].type = r.type
                          /\ chunks[k].parent_name = r.name

\* byte offsets inside a whitespace-only region
InWhitespaceRegion(b) ==
    \E i \in 1..Len(regions) :
        /\ regions[i].start <= b /\ b < regions[i].end
        /\ all_whitespace(Substr(source, regions[i].start,
                                 regions[i].end - regions[i].start))

\* C20: when chunk returns, every byte of the source outside the
\* whitespace-only regions lies in the byte range of some chunk; the regions
\* follow each other from offset 0 to the end of the source without gaps.
C20_ChunksCoverSource ==
    cpc = "done" =>
        /\ \A b \in 0..(Len(source) - 1) :
              \/ InWhitespaceRegion(b)
              \/ \E k \in 1..Len(chunks) :
                    chunks[k].byte_offset <= b /\ b < ChunkEnd(chunks[k])
        /\ regions # <<>> =>
              /\ regions[1].start = 0
              /\ regions[Len(regions)].end = Len(source)
              /\ \A i \in 1..(Len(regions) - 1) : regions[i].end = regions[i + 1].start

\* a returned call that skipped a whitespace-only region, split another
\* region and chunked a third one whole
C20_Witness ==
    /\ cpc = "done"
    /\ Len(regions) >= 3
    /\ \E b \in 0..(Len(source) - 1) : InWhitespaceRegion(b)
    /\ \E i \in 1..Len(regions) : Cardinality(ChunksOf(regions[i])) >= 2
    /\ \E i \in 1..Len(regions) :
          \E k \in 1..Len(chunks) :
             /\ chunks[k].byte_offset = regions[i].start
             /\ ChunkEnd(chunks[k]) = regions[i].end


-----------------------------------------------------------------------------
(* Tokenizer::count_tokens and Tokenizer::find_token_boundary on their own *)

MaxPieces == 4
MaxTarget == 8

\* " ", "\n", "a", "111aaaa", "+=": a space, a newline, a letter, a number
\* that goes on with hexadecimal digits, and an operator of two characters
Pieces == {<<32>>, <<10>>, <<97>>, <<49, 49, 49, 97, 97, 97, 97>>, <<43, 61>>}

Texts == {Concat(l) : l \in UNION {[1..k -> Pieces] : k \in 0..MaxPieces}}

InitTok ==
    /\ tk_text \in Texts
    /\ tk_pc = "start"
    /\ tk_arg = 0
    /\ tk_count = 0
    /\ tk_boundary = 0
    /\ tk_parts = <<0, 0>>
    /\ tree = EmptyTree
    /\ other = EmptyTree
    /\ ops = 0
    /\ InitSerial
    /\ IdleDiff
    /\ IdleIndex
    /\ IdleHasher
    /\ IdleConc
    /\ IdleLoad
    /\ IdleChunk
    /\ IdleMemo
    /\ IdleScan
    /\ IdleStream
    /\ IdleDetect

\* tokenizer.count_tokens(text)
CountTokens ==
    /\ tk_pc = "start"
    /\ tk_count' = count_tokens(tk_text)
    /\ tk_pc' = "count_tokens"
    /\ UNCHANGED <<tk_text, tk_arg, tk_boundary, tk_parts, outsideTok>>

\* tokenizer.find_token_boundary(text, target_tokens)
FindTokenBoundary(target_tokens) ==
    /\ tk_pc = "start"
    /\ tk_arg' = target_tokens
    /\ tk_boundary' = find_token_boundary(tk_text, target_tokens)
    /\ tk_pc' = "find_token_boundary"
    /\ UNCHANGED <<tk_text, tk_count, tk_parts, outsideTok>>

\* count_tokens of text.substr(0, at), of text.substr(at) and of the text
CountParts(at) ==
    /\ tk_pc = "start"
    /\ tk_arg' = at
    /\ tk_parts' = <<count_tokens(SubSeq(tk_text, 1, at)),
                     count_tokens(SubSeq(tk_text, at + 1, Len(tk_text)))>>
    /\ tk_count' = count_tokens(tk_text)
    /\ tk_pc' = "parts"
    /\ UNCHANGED <<tk_text, tk_boundary, outsideTok>>

NextTok ==
    \/ CountTokens
    \/ \E target_tokens \in 0..MaxTarget : FindTokenBoundary(target_tokens)
    \/ \E at \in 0..Len(tk_text) : CountParts(at)

SpecTok == InitTok /\ [][NextTok]_vars

\* C21: when the whole text fits within the target token count, in
\* particular for target = count_tokens(text), find_token_boundary returns
\* text.size().
C21_BoundaryOfFittingText ==
    (tk_pc = "find_token_boundary" /\ count_tokens(tk_text) <= tk_arg) =>
        tk_boundary = Len(tk_text)

\* the split at offset tk_arg falls at whitespace: the first part ends with
\* a whitespace character or the second part begins with one
SplitAtWhitespace ==
    \/ tk_arg > 0 /\ IsSpace(tk_text[tk_arg])
    \/ tk_arg < Len(tk_text) /\ IsSpace(tk_text[tk_arg + 1])

\* C22: for a ++ b split at whitespace, count_tokens(a) + count_tokens(b) - 1
\* <= count_tokens(a ++ b) <= count_tokens(a) + count_tokens(b) + 1.
C22_CountNearAdditive ==
    (tk_pc = "parts" /\ SplitAtWhitespace) =>
        /\ tk_parts[1] + tk_parts[2] - 1 <= tk_count
        /\ tk_count <= tk_parts[1] + tk_parts[2] + 1

\* a split inside a run of whitespace, whose two halves count once together,
\* with more tokens on both sides
C22_Witness ==
    /\ tk_pc = "parts"
    /\ tk_arg > 0 /\ tk_arg < Len(tk_text)
    /\ tk_text[tk_arg] = 32 /\ tk_text[tk_arg + 1] = 32
    /\ tk_count = tk_parts[1] + tk_parts[2] - 1
    /\ tk_parts[1] > 1

\* C30: for target >= 1 the prefix that find_token_boundary returns holds at
\* most target tokens as counted by count_tokens.
C30_BoundaryWithinBudget ==
    (tk_pc = "find_token_boundary" /\ tk_arg >= 1) =>
        count_tokens(SubSeq(tk_text, 1, tk_boundary)) <= tk_arg

-----------------------------------------------------------------------------
(* glob_match, Indexer::scan and Indexer::incremental_update *)

MaxDiskFiles == 2

\* the regular expression glob_match builds, one record per item:
\* ".*", "[^/\\]*", "[^/\\]" or one literal character
RegexItem(kind, c) == [kind |-> kind, c |-> c]

\* a character the conversion escapes and a character it copies are both one
\* literal character of the expression
RECURSIVE RegexFrom(_, _, _)
RegexFrom(pattern, i, regex_str) ==
    IF i > Len(pattern) THEN regex_str
    ELSE IF pattern[i] = 42
         THEN IF i + 1 <= Len(pattern) /\ pattern[i + 1] = 42
              THEN RegexFrom(pattern, i + 2, Append(regex_str, RegexItem("any_star", 0)))
              ELSE RegexFrom(pattern, i + 1, Append(regex_str, RegexItem("name_star", 0)))
         ELSE IF pattern[i] = 63
              THEN RegexFrom(pattern, i + 1, Append(regex_str, RegexItem("name_char", 0)))
              ELSE RegexFrom(pattern, i + 1, Append(regex_str, RegexItem("char", pattern[i])))

\* std::regex::icase: letters compare without case
FoldCase(c) == IF c \in 65..90 THEN c + 32 ELSE c

\* the characters one item of the regular expression accepts
ItemAccepts(item, c) ==
    CASE item.kind = "char" -> FoldCase(c) = FoldCase(item.c)
      [] item.kind = "any_star" -> c \notin {10, 13}
      [] OTHER -> c \notin {Slash, Backslash}

\* std::regex_match: the items from j on match the whole of path from i on
RECURSIVE RegexMatch(_, _, _, _)
RegexMatch(path, i, rx, j) ==
    IF j > Len(rx) THEN i > Len(path)
    ELSE IF rx[j].kind \in {"any_star", "name_star"}
         THEN \/ RegexMatch(path, i, rx, j + 1)
              \/ /\ i <= Len(path)
                 /\ ItemAccepts(rx[j], path[i])
                 /\ RegexMatch(path, i + 1, rx, j)
         ELSE /\ i <= Len(path)
              /\ ItemAccepts(rx[j], path[i])
              /\ RegexMatch(path, i + 1, rx, j + 1)

glob_match(path, pattern) ==
    Val({RegexMatch(path, 1, rx, 1) : rx \in {RegexFrom(pattern, 1, <<>>)}})

should_include(cfg, path) ==
    \/ cfg.include_patterns = <<>>
    \/ \E i \in DOMAIN cfg.include_patterns : glob_match(path, cfg.include_patterns[i])

should_exclude(cfg, path) ==
    \E i \in DOMAIN cfg.exclude_patterns : glob_match(path, cfg.exclude_patterns[i])

\* the directory names of the default exclude patterns:
\* node_modules, .git, dist, build, __pycache__, vendor, .venv, target
ExcludedDirNames ==
    {<<110, 111, 100, 101, 95, 109, 111, 100, 117, 108, 101, 115>>,
     <<46, 103, 105, 116>>,
     <<100, 105, 115, 116>>,
     <<98, 117, 105, 108, 100>>,
     <<95, 95, 112, 121, 99, 97, 99, 104, 101, 95, 95>>,
     <<118, 101, 110, 100, 111, 114>>,
     <<46, 118, 101, 110, 118>>,
     <<116, 97, 114, 103, 101, 116>>}

\* regular files a scanned directory can hold: relative path, the hash
\* hash_files_parallel returns for it, and whether file_size <= max_file_size
DiskFile(p, h, fits) == [path |-> p, content_hash |-> h, fits |-> fits]

\* src/x, src2/x, srcfile, src/big, src/a.min.js, node_modules/x, src/node_modules/x,
\* .git/x, dist/x, build/x, __pycache__/x, vendor/x, .venv/x, target/x
DiskFiles ==
    {DiskFile(<<115, 114, 99, 47, 120>>, U64(1), TRUE),
     DiskFile(<<115, 114, 99, 50, 47, 120>>, U64(2), TRUE),
     DiskFile(<<115, 114, 99, 102, 105, 108, 101>>, U64(1), TRUE),
     DiskFile(<<115, 114, 99, 47, 98, 105, 103>>, U64(2), FALSE),
     DiskFile(<<115, 114, 99, 47, 97, 46, 109, 105, 110, 46, 106, 115>>, U64(1), TRUE),
     DiskFile(<<110, 111, 100, 101, 95, 109, 111, 100, 117, 108, 101, 115, 47, 120>>, U64(1), TRUE),
     DiskFile(<<115, 114, 99, 47, 110, 111, 100, 101, 95, 109, 111, 100, 117, 108, 101, 115, 47, 120>>, U64(2), TRUE),
     DiskFile(<<46, 103, 105, 116, 47, 120>>, U64(1), TRUE),
     DiskFile(<<100, 105, 115, 116, 47, 120>>, U64(1), TRUE),
     DiskFile(<<98, 117, 105, 108, 100, 47, 120>>, U64(1), TRUE),
     DiskFile(<<95, 95, 112, 121, 99, 97, 99, 104, 101, 95, 95, 47, 120>>, U64(1), TRUE),
     DiskFile(<<118, 101, 110, 100, 111, 114, 47, 120>>, U64(1), TRUE),
     DiskFile(<<46, 118, 101, 110, 118, 47, 120>>, U64(1), TRUE),
     DiskFile(<<116, 97, 114, 103, 101, 116, 47, 120>>, U64(1), TRUE)}

NormalizeSeparators(p) == [i \in DOMAIN p |-> IF p[i] = Backslash THEN Slash ELSE p[i]]

\* fs::relative(entry.path(), root).string() with '\\' replaced by '/'
RelPath(k) == NormalizeSeparators(JoinPath(k))

\* the entries of the directory with components k, given the components of
\* every file below the root
DirChildren(keys, k) ==
    {SubSeq(c, 1, Len(k) + 1) : c \in {x \in keys : IsPrefix(k, x) /\ Len(x) > Len(k)}}

\* the orders in which fs::recursive_directory_iterator can yield the entries
\* below k: a directory before its entries, the entries of one directory in
\* any order
RECURSIVE Walks(_, _)
RECURSIVE WalksOf(_, _)
WalksOf(keys, kids) ==
    IF kids = {} THEN {<<>>}
    ELSE UNION {{<<c>> \o w \o rest : w \in Walks(keys, c),
                                      rest \in WalksOf(keys, kids \ {c})} :
                   c \in kids}

Walks(keys, k) == WalksOf(keys, DirChildren(keys, k))

EmptyWalkState == [file_paths |-> <<>>, dir_paths |-> <<>>,
                   total_files |-> 0, total_dirs |-> 0]

\* one turn of the first pass of Indexer::scan, for the entry with components k
WalkEntry(cfg, files, st, k) ==
    LET rel_path == RelPath(k)
        is_directory == \A f \in files : split_path(f.path) # k
        entry == CHOOSE f \in files : split_path(f.path) = k
    IN  IF should_exclude(cfg, rel_path) THEN st
        ELSE IF is_directory
             THEN [st EXCEPT !.dir_paths = Append(@, k),
                             !.total_dirs = @ + 1]
             ELSE IF ~should_include(cfg, rel_path) THEN st
                  ELSE IF ~entry.fits THEN st
                       ELSE [st EXCEPT !.file_paths = Append(@, k),
                                       !.total_files = @ + 1]

RECURSIVE WalkFrom(_, _, _, _, _, _)
WalkFrom(cfg, files, walk, i, n, st) ==
    IF i > n THEN st
    ELSE WalkFrom(cfg, files, walk, i + 1, n,
                  Val({WalkEntry(cfg, files, s, walk[i]) : s \in {st}}))

DirEntry(p, h, files_below, dirs_below) ==
    [path |-> p, merkle_hash |-> h, file_count |-> files_below,
     dir_count |-> dirs_below]

\* the "Build file entries" loop of Indexer::scan
RECURSIVE BuildFiles(_, _, _, _)
BuildFiles(files, file_paths, i, acc) ==
    IF i > Len(file_paths) THEN acc
    ELSE LET rel_path == RelPath(file_paths[i])
             on_disk == CHOOSE f \in files : split_path(f.path) = file_paths[i]
         IN  BuildFiles(files, file_paths, i + 1,
                 [entries |-> Append(acc.entries,
                                     FileEntry(rel_path, on_disk.content_hash, FALSE)),
                  merkle |-> add_file(acc.merkle, rel_path, on_disk.content_hash)])

\* file.path.find(rel_path) == 0
StartsWith(path, rel_path) == IsPrefix(rel_path, path)

\* the "Build directory entries" loop of Indexer::scan
RECURSIVE BuildDirs(_, _, _, _)
BuildDirs(entries, dir_paths, i, acc) ==
    IF i > Len(dir_paths) THEN acc
    ELSE LET rel_path == RelPath(dir_paths[i])
             counted == {j \in DOMAIN entries : StartsWith(entries[j].path, rel_path)}
         IN  BuildDirs(entries, dir_paths, i + 1,
                 [directories |-> Append(acc.directories,
                                         DirEntry(rel_path,
                                                  compute_hash(acc.merkle, rel_path),
                                                  Cardinality(counted), 0)),
                  merkle |-> compute_hash_state(acc.merkle, rel_path)])

RootKinds == {"directory", "missing", "not_directory", "walk_throws"}

\* Indexer::scan(root_path): the ScanResult and merkle_tree_ afterwards.
\* walk is the order of the directory iteration; with root "walk_throws" the
\* iteration throws after `walked` entries.
scan(cfg, root, files, walk, walked, merkle) ==
    IF root \in {"missing", "not_directory"}
    THEN [result |-> ScanResult(<<>>, <<>>, 0, 0, 0, "Invalid directory"),
          merkle |-> merkle]
    ELSE LET n == IF root = "walk_throws" THEN walked ELSE Len(walk)
             st == Val({WalkFrom(cfg, files, w, 1, n, EmptyWalkState) : w \in {walk}})
         IN  IF root = "walk_throws"
             THEN [result |-> ScanResult(<<>>, <<>>, 0, st.total_files,
                                         st.total_dirs, "Scan error"),
                   merkle |-> merkle]
             ELSE LET built == Val({BuildFiles(files, s.file_paths, 1,
                                        [entries |-> <<>>, merkle |-> clear(merkle)]) :
                                    s \in {st}})
                      dirs == Val({BuildDirs(b.entries, st.dir_paths, 1,
                                       [directories |-> <<>>, merkle |-> b.merkle]) :
                                   b \in {built}})
                  IN  [result |-> ScanResult(built.entries, dirs.directories,
                                             3 * Len(built.entries),
                                             st.total_files, st.total_dirs, ""),
                       merkle |-> dirs.merkle]

\* Indexer::incremental_update, given what its scan returned
incremental_update(cfg, new_scan, previous) ==
    DiffResult(IndexerDiff(previous, new_scan.files, cfg.detect_renames), "")

\* the directories that hold the files, as sets of components
FileKeysOf(files) == {split_path(f.path) : f \in files}

\* what FileIndex::get_all returns for the previous index
PreviousIndexes ==
    {<<>>,
     <<FileEntry(<<115, 114, 99, 47, 120>>, U64(1), TRUE)>>,
     <<FileEntry(<<115, 114, 99, 47, 120>>, U64(2), TRUE),
       FileEntry(<<111, 108, 100>>, U64(1), TRUE)>>}

InitScan ==
    /\ fs_files \in {S \in SUBSET DiskFiles : Cardinality(S) <= MaxDiskFiles}
    /\ fs_root \in RootKinds
    /\ fs_root \in {"missing", "not_directory"} => fs_files = {}
    /\ ix_config \in {IndexerConfig(r) : r \in BOOLEAN}
    /\ previous_index \in PreviousIndexes
    /\ scan_result = EmptyScanResult
    /\ update_result = DiffResult(EmptyDiffResult, "")
    /\ ix_pc = "call"
    /\ tree = EmptyTree
    /\ other = EmptyTree
    /\ ops = 0
    /\ InitSerial
    /\ IdleDiff
    /\ IdleIndex
    /\ IdleHasher
    /\ IdleConc
    /\ IdleLoad
    /\ IdleChunk
    /\ IdleTok
    /\ IdleMemo
    /\ IdleStream
    /\ IdleDetect

\* indexer.scan(root_path)
Scan ==
    /\ ix_pc = "call"
    /\ \E walk \in Walks(FileKeysOf(fs_files), <<>>) :
       \E walked \in (IF fs_root = "walk_throws" THEN 0..Len(walk) ELSE {Len(walk)}) :
       \E s \in {scan(ix_config, fs_root, fs_files, walk, walked, tree)} :
          /\ scan_result' = s.result
          /\ tree' = s.merkle
    /\ ix_pc' = "scan"
    /\ UNCHANGED <<fs_files, fs_root, ix_config, previous_index, update_result,
                   outsideScan>>

\* indexer.incremental_update(root_path, previous_index)
IncrementalUpdate ==
    /\ ix_pc = "call"
    /\ \E walk \in Walks(FileKeysOf(fs_files), <<>>) :
       \E walked \in (IF fs_root = "walk_throws" THEN 0..Len(walk) ELSE {Len(walk)}) :
       \E s \in {scan(ix_config, fs_root, fs_files, walk, walked, tree)} :
          /\ scan_result' = s.result
          /\ tree' = s.merkle
          /\ update_result' = incremental_update(ix_config, s.result, previous_index)
    /\ ix_pc' = "incremental_update"
    /\ UNCHANGED <<fs_files, fs_root, ix_config, previous_index, outsideScan>>

NextScan == Scan \/ IncrementalUpdate

SpecScan == InitScan /\ [][NextScan]_vars

-----------------------------------------------------------------------------
(* Claims about Indexer::scan and Indexer::incremental_update *)

ScanSucceeded == ix_pc \in {"scan", "incremental_update"} /\ scan_result.error = ""

\* C27: in every ScanResult the file_count of a DirEntry is the number of
\* files of the result inside that directory's subtree, that is whose path
\* starts with the directory's path followed by '/'.
C27_FileCountIsSubtreeSize ==
    ScanSucceeded =>
        \A i \in DOMAIN scan_result.directories :
            LET d == scan_result.directories[i]
            IN  d.file_count =
                  Cardinality({j \in DOMAIN scan_result.files :
                      IsPrefix(d.path \o <<Slash>>, scan_result.files[j].path)})

\* C28: with the default exclude patterns no file below a directory named
\* node_modules, .git, dist, build, __pycache__, vendor, .venv or target is in
\* a scan result, at any depth.
C28_DefaultExcludesHold ==
    (ScanSucceeded /\ ix_config.exclude_patterns = DefaultExcludePatterns) =>
        \A j \in DOMAIN scan_result.files :
            LET k == split_path(scan_result.files[j].path)
            IN  \A n \in 1..(Len(k) - 1) : k[n] \notin ExcludedDirNames

\* C29: when the scan inside incremental_update fails, the DiffResult carries
\* a non-empty error and no changes.
C29_FailedScanGivesErrorNotDeletions ==
    (ix_pc = "incremental_update" /\ scan_result.error # "") =>
        /\ update_result.error # ""
        /\ update_result.changes = <<>>

-----------------------------------------------------------------------------
(* XXHash64Stream against XXHash64::hash *)

MaxDataLen == 70
MaxCalls == 4

\* the lengths of the pieces given to update()
PieceLens == {0, 1, 31, 32, 33, 65}

StreamData == [i \in 1..MaxDataLen |-> (i * 37 + 11) % 256]

InitStream ==
    /\ xs_data = StreamData
    /\ xs_fed = 0
    /\ \E seed \in {Zero64, U64(7)}, fill \in {0, 255} :
          xs_stream = XXHash64Stream(seed, [i \in 1..32 |-> fill])
    /\ xs_calls = NoCalls
    /\ xs_ops = 0
    /\ xs_digest = Zero64
    /\ xs_pc = "open"
    /\ tree = EmptyTree
    /\ other = EmptyTree
    /\ ops = 0
    /\ InitSerial
    /\ IdleDiff
    /\ IdleIndex
    /\ IdleHasher
    /\ IdleConc
    /\ IdleLoad
    /\ IdleChunk
    /\ IdleTok
    /\ IdleMemo
    /\ IdleScan
    /\ IdleDetect

\* hasher.reset()
StreamReset ==
    /\ xs_ops < MaxCalls
    /\ xs_ops' = xs_ops + 1
    /\ xs_stream' = XXHash64Stream_reset(xs_stream)
    /\ xs_fed' = 0
    /\ xs_calls' = NoCalls
    /\ xs_pc' = "open"
    /\ UNCHANGED <<xs_data, xs_digest, outsideStream>>

\* hasher.update(data + fed, len)
StreamUpdate(len) ==
    /\ xs_ops < MaxCalls
    /\ xs_ops' = xs_ops + 1
    /\ xs_fed + len <= Len(xs_data)
    /\ xs_stream' = XXHash64Stream_update(xs_stream,
                        SubSeq(xs_data, xs_fed + 1, xs_fed + len))
    /\ xs_fed' = xs_fed + len
    /\ xs_calls' = [empty |-> xs_calls.empty \/ len = 0,
                    small |-> xs_calls.small \/ (0 < len /\ len < 32)]
    /\ xs_pc' = "open"
    /\ UNCHANGED <<xs_data, xs_digest, outsideStream>>

\* hasher.finalize()
StreamFinalize ==
    /\ xs_digest' = XXHash64Stream_finalize(xs_stream)
    /\ xs_pc' = "finalized"
    /\ UNCHANGED <<xs_data, xs_fed, xs_stream, xs_calls, xs_ops, outsideStream>>

NextStream ==
    \/ StreamReset
    \/ \E len \in PieceLens : StreamUpdate(len)
    \/ StreamFinalize

SpecStream == InitStream /\ [][NextStream]_vars

\* C24: for every split of the data into update() calls, empty calls and
\* pieces shorter than 32 bytes included, finalize() returns what the one-shot
\* XXHash64::hash returns for the bytes given so far.
C24_StreamEqualsOneShot ==
    xs_pc = "finalized" =>
        xs_digest = XXHash64_hash(SubSeq(xs_data, 1, xs_fed), xs_stream.seed)

\* finalize() after more than two stripes were fed in pieces, with an empty
\* call, a piece under 32 bytes and bytes left in the buffer
C24_Witness ==
    /\ xs_pc = "finalized"
    /\ xs_fed > 64
    /\ xs_calls.empty
    /\ xs_calls.small
    /\ xs_stream.mem_size > 0
    /\ xs_stream.seed # Zero64

-----------------------------------------------------------------------------
(* BoundaryDetector: the detectors for JavaScript, TypeScript and Python on
   the bytes of the source *)

\* std::isspace and \s on bytes
Whitespace == {9, 10, 11, 12, 13, 32}

\* [a-zA-Z_$] and [a-zA-Z0-9_$]
IdentStart == (65..90) \cup (97..122) \cup {95, 36}
IdentRest == IdentStart \cup (48..57)

\* the number of bytes from offset at on that are in set
RECURSIVE Run(_, _, _)
Run(src, at, set) ==
    IF at < Len(src) /\ src[at + 1] \in set THEN 1 + Run(src, at + 1, set) ELSE 0

skip_whitespace(src, pos) == pos + Run(src, pos, Whitespace)

skip_to_eol(src, pos) == pos + Run(src, pos, (0..255) \ {Newline})

\* the loop of Impl::skip_string
RECURSIVE StringFrom(_, _, _)
StringFrom(src, pos, quote) ==
    IF pos >= Len(src) THEN pos
    ELSE IF src[pos + 1] = Backslash /\ pos + 1 < Len(src)
         THEN StringFrom(src, pos + 2, quote)
         ELSE IF src[pos + 1] = quote THEN pos + 1
              ELSE StringFrom(src, pos + 1, quote)

\* Impl::skip_string, entered with pos at the opening quote
skip_string(src, pos, quote) == StringFrom(src, pos + 1, quote)

\* the loop over a ${...} expression of a template string
RECURSIVE TemplateExpr(_, _, _)
TemplateExpr(src, pos, depth) ==
    IF pos < Len(src) /\ depth > 0
    THEN TemplateExpr(src, pos + 1,
                      IF src[pos + 1] = OpenBrace THEN depth + 1
                      ELSE IF src[pos + 1] = CloseBrace THEN depth - 1
                      ELSE depth)
    ELSE pos

RECURSIVE TemplateFrom(_, _)
TemplateFrom(src, pos) ==
    IF pos >= Len(src) THEN pos
    ELSE IF src[pos + 1] = Backslash /\ pos + 1 < Len(src)
         THEN TemplateFrom(src, pos + 2)
         ELSE IF src[pos + 1] = 36 /\ pos + 1 < Len(src) /\ src[pos + 2] = OpenBrace
              THEN TemplateFrom(src, TemplateExpr(src, pos + 2, 1))
              ELSE IF src[pos + 1] = 96 THEN pos + 1
                   ELSE TemplateFrom(src, pos + 1)

\* Impl::skip_template_string, entered with pos at the opening backtick
skip_template_string(src, pos) == TemplateFrom(src, pos + 1)

\* the loop of skip_comment over a block comment
RECURSIVE BlockCommentFrom(_, _)
BlockCommentFrom(src, pos) ==
    IF pos + 1 < Len(src)
    THEN IF src[pos + 1] = 42 /\ src[pos + 2] = Slash THEN pos + 2
         ELSE BlockCommentFrom(src, pos + 1)
    ELSE pos

\* Impl::skip_comment
skip_comment(src, pos) ==
    IF pos + 1 >= Len(src) THEN pos
    ELSE IF src[pos + 1] = Slash /\ src[pos + 2] = Slash THEN skip_to_eol(src, pos)
    ELSE IF src[pos + 1] = Slash /\ src[pos + 2] = 42 THEN BlockCommentFrom(src, pos + 2)
    ELSE IF src[pos + 1] = 35 THEN skip_to_eol(src, pos)
    ELSE pos

\* std::regex (ECMAScript): the parts of an expression
Rx(kind, word, set, parts) == [kind |-> kind, word |-> word, set |-> set, parts |-> parts]
RxLit(word) == Rx("lit", word, {}, <<>>)
RxOne(set) == Rx("one", <<>>, set, <<>>)
RxStar(set) == Rx("star", <<>>, set, <<>>)
RxPlus(set) == Rx("plus", <<>>, set, <<>>)
RxOpt(parts) == Rx("opt", <<>>, {}, parts)
RxAlt(parts) == Rx("alt", <<>>, {}, parts)

\* the offsets where a match of the part (of the parts from i on) that starts
\* at offset at can end, in the order the matcher tries them: greedy
\* repetitions first, alternatives left to right
RECURSIVE RxEnds(_, _, _)
RECURSIVE RxSeqEnds(_, _, _, _)
RxEnds(r, s, at) ==
    CASE r.kind = "lit" ->
            IF at + Len(r.word) <= Len(s) /\ SubSeq(s, at + 1, at + Len(r.word)) = r.word
            THEN <<at + Len(r.word)>> ELSE <<>>
      [] r.kind = "one" ->
            IF at < Len(s) /\ s[at + 1] \in r.set THEN <<at + 1>> ELSE <<>>
      [] r.kind = "star" ->
            Val({[i \in 1..(n + 1) |-> at + n + 1 - i] : n \in {Run(s, at, r.set)}})
      [] r.kind = "plus" ->
            Val({[i \in 1..n |-> at + n + 1 - i] : n \in {Run(s, at, r.set)}})
      [] r.kind = "opt" -> RxSeqEnds(r.parts, 1, s, at) \o <<at>>
      [] OTHER -> Concat([i \in 1..Len(r.parts) |-> RxEnds(r.parts[i], s, at)])

RxSeqEnds(parts, i, s, at) ==
    IF i > Len(parts) THEN <<at>>
    ELSE Val({Concat([j \in 1..Len(e) |-> RxSeqEnds(parts, i + 1, s, e[j])]) :
              e \in {RxEnds(parts[i], s, at)}})

\* regex_search(remaining_str, match, rx, match_continuous) for the 200 bytes
\* of the source from pos on: match.length(), or -1 without a match
MatchLength(src, pos, rx) ==
    Val({IF e = <<>> THEN -1 ELSE e[1] : e \in {RxSeqEnds(rx, 1, Substr(src, pos, 200), 0)}})

\* the identifier a capture group [a-zA-Z_$][a-zA-Z0-9_$]* takes at offset at
IdentAt(src, at, start_set, rest_set) ==
    IF at < Len(src) /\ src[at + 1] \in start_set
    THEN Substr(src, at, 1 + Run(src, at + 1, rest_set))
    ELSE <<>>

Ident == <<RxOne(IdentStart), RxStar(IdentRest)>>
OptAsync == RxOpt(<<RxLit(<<97, 115, 121, 110, 99>>), RxPlus(Whitespace)>>)

\* (?:async\s+)?function\s*(\*?)\s*([a-zA-Z_$][a-zA-Z0-9_$]*)?\s*\(
js_func_prefix ==
    <<OptAsync, RxLit(<<102, 117, 110, 99, 116, 105, 111, 110>>), RxStar(Whitespace), RxOpt(<<RxLit(<<42>>)>>),
      RxStar(Whitespace)>>
js_func_regex ==
    js_func_prefix \o <<RxOpt(Ident), RxStar(Whitespace), RxLit(<<40>>)>>

\* (?:const|let|var)\s+([a-zA-Z_$][a-zA-Z0-9_$]*)\s*=\s*(?:async\s+)?\([^)]*\)\s*=>
js_arrow_prefix ==
    <<RxAlt(<<RxLit(<<99, 111, 110, 115, 116>>), RxLit(<<108, 101, 116>>), RxLit(<<118, 97, 114>>)>>), RxPlus(Whitespace)>>
js_arrow_regex ==
    js_arrow_prefix \o Ident \o
    <<RxStar(Whitespace), RxLit(<<61>>), RxStar(Whitespace), OptAsync, RxLit(<<40>>),
      RxStar((0..255) \ {41}), RxLit(<<41>>), RxStar(Whitespace), RxLit(<<61, 62>>)>>

\* class\s+([a-zA-Z_$][a-zA-Z0-9_$]*)
js_class_prefix == <<RxLit(<<99, 108, 97, 115, 115>>), RxPlus(Whitespace)>>
js_class_regex == js_class_prefix \o Ident

\* import\s+
js_import_regex == <<RxLit(<<105, 109, 112, 111, 114, 116>>), RxPlus(Whitespace)>>

\* export\s+(?:default\s+)?(?:async\s+)?(?:function|class|const|let|var)
js_export_regex ==
    <<RxLit(<<101, 120, 112, 111, 114, 116>>), RxPlus(Whitespace),
      RxOpt(<<RxLit(<<100, 101, 102, 97, 117, 108, 116>>), RxPlus(Whitespace)>>), OptAsync,
      RxAlt(<<RxLit(<<102, 117, 110, 99, 116, 105, 111, 110>>), RxLit(<<99, 108, 97, 115, 115>>), RxLit(<<99, 111, 110, 115, 116>>), RxLit(<<108, 101, 116>>),
              RxLit(<<118, 97, 114>>)>>)>>

\* interface\s+([a-zA-Z_$][a-zA-Z0-9_$]*) and enum\s+([a-zA-Z_$][a-zA-Z0-9_$]*)
ts_interface_prefix == <<RxLit(<<105, 110, 116, 101, 114, 102, 97, 99, 101>>), RxPlus(Whitespace)>>
ts_interface_regex == ts_interface_prefix \o Ident
ts_enum_prefix == <<RxLit(<<101, 110, 117, 109>>), RxPlus(Whitespace)>>
ts_enum_regex == ts_enum_prefix \o Ident

\* [a-zA-Z_] and [a-zA-Z0-9_] (\w)
PyIdentStart == IdentStart \ {36}
PyIdentRest == IdentRest \ {36}
PyIdent == <<RxOne(PyIdentStart), RxStar(PyIdentRest)>>

\* (?:async\s+)?def\s+([a-zA-Z_][a-zA-Z0-9_]*)\s*\(
py_func_prefix == <<OptAsync, RxLit(<<100, 101, 102>>), RxPlus(Whitespace)>>
py_func_regex == py_func_prefix \o PyIdent \o <<RxStar(Whitespace), RxLit(<<40>>)>>

\* class\s+([a-zA-Z_][a-zA-Z0-9_]*)
py_class_regex == js_class_prefix \o PyIdent

\* (?:from\s+[.\w]+\s+)?import\s+
py_import_regex ==
    <<RxOpt(<<RxLit(<<102, 114, 111, 109>>), RxPlus(Whitespace), RxPlus(PyIdentRest \cup {46}),
              RxPlus(Whitespace)>>),
      RxLit(<<105, 109, 112, 111, 114, 116>>), RxPlus(Whitespace)>>

\* the name a capture group takes after the prefix of a matching expression
CapturedName(src, pos, prefix, start_set, rest_set) ==
    IdentAt(src, pos + MatchLength(src, pos, prefix), start_set, rest_set)

\* "<anonymous>"
Anonymous == <<60, 97, 110, 111, 110, 121, 109, 111, 117, 115, 62>>

\* the search for the opening brace after a class or function start: the
\* scope stack, position and boundaries afterwards
AfterStart(src, pos, scope_stack, found, type) ==
    LET brace == FindByte(src, pos, OpenBrace)
    IN  IF brace < Len(src)
        THEN [pos |-> brace + 1, scope_stack |-> Append(scope_stack, type), found |-> found]
        ELSE [pos |-> brace, scope_stack |-> scope_stack, found |-> found]

JsState(pos, scope_stack, found) ==
    [pos |-> pos, scope_stack |-> scope_stack, found |-> found]

\* one turn of the loop of detect_javascript, entered after skip_whitespace
\* with pos < source.size()
JavascriptTurn(src, pos, scope_stack, found) ==
    LET c == src[pos + 1]
        scope_depth == Len(scope_stack)
        boundary(type, name) == SemanticBoundary(pos, type, name, scope_depth, TRUE)
        import_len == MatchLength(src, pos, js_import_regex)
        export_len == MatchLength(src, pos, js_export_regex)
        class_len == MatchLength(src, pos, js_class_regex)
        func_len == MatchLength(src, pos, js_func_regex)
        arrow_len == MatchLength(src, pos, js_arrow_regex)
    IN
    IF c = Slash /\ pos + 1 < Len(src) /\ src[pos + 2] \in {Slash, 42}
    THEN Val({JsState(after, scope_stack,
                      IF after - pos > 50
                      THEN Append(found, boundary("COMMENT", <<>>))
                      ELSE found) : after \in {skip_comment(src, pos)}})
    ELSE IF c \in {34, 39} THEN JsState(skip_string(src, pos, c), scope_stack, found)
    ELSE IF c = 96 THEN JsState(skip_template_string(src, pos), scope_stack, found)
    ELSE IF import_len >= 0
    THEN JsState(skip_to_eol(src, pos), scope_stack,
                 Append(found, boundary("IMPORT", <<>>)))
    ELSE IF export_len >= 0
    THEN JsState(pos + export_len, scope_stack, Append(found, boundary("EXPORT", <<>>)))
    ELSE IF class_len >= 0
    THEN AfterStart(src, pos + class_len, scope_stack,
             Append(found, boundary("CLASS",
                 CapturedName(src, pos, js_class_prefix, IdentStart, IdentRest))),
             "CLASS")
    ELSE IF func_len >= 0
    THEN AfterStart(src, pos + func_len, scope_stack,
             Append(found, boundary("FUNCTION",
                 Val({IF name = <<>> THEN Anonymous ELSE name :
                      name \in {CapturedName(src, pos, js_func_prefix,
                                             IdentStart, IdentRest)}}))),
             "FUNCTION")
    ELSE IF arrow_len >= 0
    THEN Val({IF temp_pos < Len(src) /\ src[temp_pos + 1] = OpenBrace
              THEN JsState(temp_pos + 1, Append(scope_stack, "FUNCTION"), added)
              ELSE JsState(pos + arrow_len, scope_stack, added) :
              <<temp_pos, added>> \in
                 {<<skip_whitespace(src, pos + arrow_len),
                    Append(found, boundary("FUNCTION",
                        CapturedName(src, pos, js_arrow_prefix, IdentStart, IdentRest)))>>}})
    ELSE IF c = OpenBrace THEN JsState(pos + 1, Append(scope_stack, "BLOCK"), found)
    ELSE IF c = CloseBrace /\ scope_stack # <<>>
    THEN JsState(pos + 1, SubSeq(scope_stack, 1, scope_depth - 1),
                 IF scope_stack[scope_depth] \in {"FUNCTION", "CLASS"}
                 THEN Append(found, SemanticBoundary(pos, scope_stack[scope_depth], <<>>,
                                                     scope_depth - 1, FALSE))
                 ELSE found)
    ELSE JsState(pos + 1, scope_stack, found)

\* the loop of detect_javascript: the boundaries in the order they are found
RECURSIVE JavascriptLoop(_, _, _, _)
JavascriptLoop(src, pos0, scope_stack, found) ==
    Val({IF pos >= Len(src) THEN found
         ELSE Val({JavascriptLoop(src, st.pos, st.scope_stack, st.found) :
                   st \in {JavascriptTurn(src, pos, scope_stack, found)}}) :
         pos \in {skip_whitespace(src, pos0)}})

\* the results std::sort can give for the comparison by byte_offset: one
\* when the offsets differ, any order of equal offsets otherwise
SortedByOffset(found) ==
    LET n == Len(found)
        before(i) == Cardinality({j \in 1..n : found[j].byte_offset < found[i].byte_offset})
    IN  IF \A i, j \in 1..n : i # j => found[i].byte_offset # found[j].byte_offset
        THEN {[r \in 1..n |-> found[CHOOSE i \in 1..n : before(i) = r - 1]]}
        ELSE {[i \in 1..n |-> found[p[i]]] :
                p \in {q \in Orders(1..n) :
                         \A i, j \in 1..n :
                             i < j => found[q[i]].byte_offset <= found[q[j]].byte_offset}}

\* the loop detect_typescript adds to detect_javascript
RECURSIVE TypescriptLoop(_, _, _)
TypescriptLoop(src, pos, found) ==
    IF pos >= Len(src) THEN found
    ELSE Val({IF interface_len >= 0
              THEN TypescriptLoop(src, pos + interface_len,
                       Append(found, SemanticBoundary(pos, "INTERFACE",
                           CapturedName(src, pos, ts_interface_prefix, IdentStart, IdentRest),
                           0, TRUE)))
              ELSE IF enum_len >= 0
              THEN TypescriptLoop(src, pos + enum_len,
                       Append(found, SemanticBoundary(pos, "ENUM",
                           CapturedName(src, pos, ts_enum_prefix, IdentStart, IdentRest),
                           0, TRUE)))
              ELSE TypescriptLoop(src, pos + 1, found) :
              <<interface_len, enum_len>> \in
                  {<<MatchLength(src, pos, ts_interface_regex),
                     MatchLength(src, pos, ts_enum_regex)>>}})

\* the boundaries detect_python adds for the line with its first non-blank
\* byte at pos
PythonLine(src, line_start, pos, indent, found) ==
    IF MatchLength(src, pos, py_class_regex) >= 0
    THEN Append(found, SemanticBoundary(line_start, "CLASS",
                    CapturedName(src, pos, js_class_prefix, PyIdentStart, PyIdentRest),
                    indent \div 4, TRUE))
    ELSE IF MatchLength(src, pos, py_func_regex) >= 0
    THEN Append(found, SemanticBoundary(line_start, "FUNCTION",
                    CapturedName(src, pos, py_func_prefix, PyIdentStart, PyIdentRest),
                    indent \div 4, TRUE))
    ELSE IF MatchLength(src, pos, py_import_regex) >= 0
    THEN Append(found, SemanticBoundary(line_start, "IMPORT", <<>>, 0, TRUE))
    ELSE found

\* indent after the blanks and tabs from pos on
RECURSIVE IndentFrom(_, _)
IndentFrom(src, pos) ==
    IF pos < Len(src) /\ src[pos + 1] \in {32, 9}
    THEN (IF src[pos + 1] = 9 THEN 4 ELSE 1) + IndentFrom(src, pos + 1)
    ELSE 0

RECURSIVE PythonLoop(_, _, _)
PythonLoop(src, line_start, found) ==
    IF line_start >= Len(src) THEN found
    ELSE Val({IF pos >= Len(src) THEN found
              ELSE IF src[pos + 1] = Newline THEN PythonLoop(src, pos + 1, found)
              ELSE IF src[pos + 1] = 35
              THEN PythonLoop(src, skip_to_eol(src, pos) + 1, found)
              ELSE Val({PythonLoop(src, IF eol < Len(src) THEN eol + 1 ELSE eol,
                                   PythonLine(src, line_start, pos,
                                              IndentFrom(src, line_start), found)) :
                        eol \in {skip_to_eol(src, pos)}}) :
              pos \in {line_start + Run(src, line_start, {32, 9})}})

\* BoundaryDetector::detect_python
detect_python(src) == PythonLoop(src, 0, <<>>)

\* what BoundaryDetector::detect(source, language) can return
detect_language(src, language) ==
    CASE language = "JAVASCRIPT" -> SortedByOffset(JavascriptLoop(src, 0, <<>>, <<>>))
      [] language = "TYPESCRIPT" ->
            UNION {SortedByOffset(TypescriptLoop(src, 0, js)) :
                     js \in SortedByOffset(JavascriptLoop(src, 0, <<>>, <<>>))}
      [] OTHER -> {detect_python(src)}


\* what lies inside a string literal or a comment of a JavaScript or
\* TypeScript source: the offsets after the first byte of the literal or
\* comment that starts at a code position, up to its end
\* the end of the block comment that starts at pos: after its closing
\* delimiter, the end of the source without one
BlockCommentEnd(src, pos) ==
    LET closings == {e \in (pos + 4)..Len(src) : SubSeq(src, e - 1, e) = <<42, Slash>>}
    IN  IF closings = {} THEN Len(src)
        ELSE CHOOSE e \in closings : \A f \in closings : e <= f

RECURSIVE JsInside(_, _)
JsInside(src, pos) ==
    IF pos >= Len(src) THEN {}
    ELSE LET c == src[pos + 1]
             next == IF pos + 1 < Len(src) THEN src[pos + 2] ELSE 0
             after ==
                IF c = Slash /\ next = Slash THEN skip_to_eol(src, pos)
                ELSE IF c = Slash /\ next = 42
                THEN BlockCommentEnd(src, pos)
                ELSE IF c \in {34, 39} THEN skip_string(src, pos, c)
                ELSE IF c = 96 THEN skip_template_string(src, pos)
                ELSE pos + 1
         IN  Val({((pos + 1)..(e - 1)) \cup JsInside(src, e) : e \in {after}})

\* the same for a Python source: comments from # to the end of the line,
\* strings in triple quotes, strings in single quotes up to the end of the line
RECURSIVE TripleEnd(_, _, _)
TripleEnd(src, pos, quote) ==
    IF pos + 3 > Len(src) THEN Len(src)
    ELSE IF SubSeq(src, pos + 1, pos + 3) = <<quote, quote, quote>> THEN pos + 3
    ELSE TripleEnd(src, pos + 1, quote)

RECURSIVE PyInside(_, _)
PyInside(src, pos) ==
    IF pos >= Len(src) THEN {}
    ELSE LET c == src[pos + 1]
             after ==
                IF c = 35 THEN skip_to_eol(src, pos)
                ELSE IF c \in {34, 39} /\ pos + 3 <= Len(src)
                        /\ SubSeq(src, pos + 1, pos + 3) = <<c, c, c>>
                THEN TripleEnd(src, pos + 3, c)
                ELSE IF c \in {34, 39}
                THEN Min2(skip_string(src, pos, c), skip_to_eol(src, pos))
                ELSE pos + 1
         IN  Val({((pos + 1)..(e - 1)) \cup PyInside(src, e) : e \in {after}})

InsideStringOrComment(src, language) ==
    IF language = "PYTHON" THEN PyInside(src, 0) ELSE JsInside(src, 0)

MaxSourcePieces == 4

DetectLanguages == {"JAVASCRIPT", "TYPESCRIPT", "PYTHON"}

\* ", class X, \n, //, function f(a = "{"),  
JavascriptPieces ==
    {<<34>>,
     <<99, 108, 97, 115, 115, 32, 88>>,
     <<10>>,
     <<47, 47>>,
     <<102, 117, 110, 99, 116, 105, 111, 110, 32, 102, 40, 97, 32, 61, 32, 34, 123, 34, 41>>,
     <<32>>}

\* ", interface X, enum E, //, \n, class X
TypescriptPieces ==
    {<<34>>,
     <<105, 110, 116, 101, 114, 102, 97, 99, 101, 32, 88>>,
     <<101, 110, 117, 109, 32, 69>>,
     <<47, 47>>,
     <<10>>,
     <<99, 108, 97, 115, 115, 32, 88>>}

\* """, class X:, \n, # , def f():,     
PythonPieces ==
    {<<34, 34, 34>>,
     <<99, 108, 97, 115, 115, 32, 88, 58>>,
     <<10>>,
     <<35, 32>>,
     <<100, 101, 102, 32, 102, 40, 41, 58>>,
     <<32, 32, 32, 32>>}

DetectSources(language) ==
    LET pieces == CASE language = "JAVASCRIPT" -> JavascriptPieces
                    [] language = "TYPESCRIPT" -> TypescriptPieces
                    [] OTHER -> PythonPieces
    IN  {Concat(l) : l \in UNION {[1..k -> pieces] : k \in 0..MaxSourcePieces}}

InitDetect ==
    /\ dt_language \in DetectLanguages
    /\ dt_source \in DetectSources(dt_language)
    /\ dt_boundaries = <<>>
    /\ dt_pc = "call"
    /\ tree = EmptyTree
    /\ other = EmptyTree
    /\ ops = 0
    /\ InitSerial
    /\ IdleDiff
    /\ IdleIndex
    /\ IdleHasher
    /\ IdleConc
    /\ IdleLoad
    /\ IdleChunk
    /\ IdleTok
    /\ IdleMemo
    /\ IdleScan
    /\ IdleStream

\* detector.detect(source, language)
Detect(language) ==
    /\ dt_pc = "call"
    /\ dt_language = language
    /\ dt_boundaries' \in detect_language(dt_source, language)
    /\ dt_pc' = "done"
    /\ UNCHANGED <<dt_source, dt_language, outsideDetect>>

NextDetect == \E language \in DetectLanguages : Detect(language)

SpecDetect == InitDetect /\ [][NextDetect]_vars

\* C23: for every language detector, text inside a string literal or a
\* comment never produces a boundary: no boundary has its offset inside one.
C23_NoBoundaryInsideStringOrComment ==
    dt_pc = "done" =>
        \A i \in DOMAIN dt_boundaries :
            dt_boundaries[i].byte_offset \notin InsideStringOrComment(dt_source, dt_language)

====
